---------------------------- MODULE Spec2Model ----------------------------
(***************************************************************************)
(* A model of the NTI score component (static/nti-score-component.js):     *)
(* the trigger-span highlighter highlightWords and the verdict renderer    *)
(* render, with the helpers they call.                                     *)
(*                                                                         *)
(* Texts are strings of UTF-16 code units, as in JavaScript.  Offsets are  *)
(* 0-based as in the source; Substring and IndexOf follow                  *)
(* String.prototype.substring and String.prototype.indexOf.                *)
(*                                                                         *)
(* Two code units outside ASCII are written with ASCII stand-ins:          *)
(*   "^"  is U+0130 (LATIN CAPITAL LETTER I WITH DOT ABOVE), whose         *)
(*        toLowerCase() is the two code units U+0069 U+0307;               *)
(*   "~"  is U+0307 (COMBINING DOT ABOVE).                                 *)
(***************************************************************************)
EXTENDS Integers, Sequences, FiniteSets, TLC

VARIABLES
    argText,  \* the text argument (originalText of render, text of highlightWords)
    argData,  \* the result object passed to render
    hl,       \* the last highlightWords call: its arguments and what it produced
    view,     \* the last render call: what it produced
    en,       \* the last enrichText call: its argument and what it produced
    page,     \* the document: for each container, the rendered instance it holds
    log,      \* the calls made so far, in order: function, arguments and output
    analytics, \* the FrontendAnalytics object and the window it listens to
    engine,   \* the NTI widgets of a page: textarea, timers, requests, buttons
    shell     \* the document az-shell.js runs on

vars == <<argText, argData, hl, view, en, page, log, analytics, engine, shell>>

-----------------------------------------------------------------------------
(* Bounds of the model.                                                    *)

\* Number of pieces a text is put together from.
MaxPieces == 3

\* Longest hedge_markers / reassurance_markers list of a result object.
MaxMarkers == 2

\* Longest tilt_taxonomy list of a result object.
MaxTilt == 2

\* Longest sequence of calls whose outputs are compared with one another.
MaxCalls == 3

-----------------------------------------------------------------------------
(* JavaScript string primitives.                                           *)

Min(a, b) == IF a < b THEN a ELSE b
Max(a, b) == IF a > b THEN a ELSE b

\* The code unit at 0-based offset i of s.
CharAt(s, i) == SubSeq(s, i + 1, i + 1)

\* String.prototype.substring(a, b): both arguments are clamped to
\* [0, length] and swapped when a > b.
Substring(s, a, b) ==
    LET ca == Max(0, Min(a, Len(s)))
        cb == Max(0, Min(b, Len(s)))
        lo == Min(ca, cb)
        hi == Max(ca, cb)
    IN  IF lo = hi THEN "" ELSE SubSeq(s, lo + 1, hi)

\* String.prototype.substring(a): to the end of the string.
SubstringFrom(s, a) == Substring(s, a, Len(s))

UpperAZ == "ABCDEFGHIJKLMNOPQRSTUVWXYZ"
LowerAZ == "abcdefghijklmnopqrstuvwxyz"

\* toLowerCase of one code unit: A-Z map to a-z, U+0130 maps to the two
\* code units U+0069 U+0307, every other code unit of the model is unchanged.
LowerChar(c) ==
    IF \E i \in 1..26 : SubSeq(UpperAZ, i, i) = c
    THEN LET i == CHOOSE k \in 1..26 : SubSeq(UpperAZ, k, k) = c
         IN  SubSeq(LowerAZ, i, i)
    ELSE IF c = "^" THEN "i~" ELSE c

RECURSIVE ToLowerCase(_)
ToLowerCase(s) ==
    IF s = "" THEN "" ELSE LowerChar(Head(s)) \o ToLowerCase(Tail(s))

\* Whether tr occurs in s at 0-based offset i.
MatchAt(s, tr, i) ==
    /\ i >= 0
    /\ i + Len(tr) <= Len(s)
    /\ SubSeq(s, i + 1, i + Len(tr)) = tr

\* String.prototype.indexOf(tr, from): the least offset >= from at which tr
\* occurs, or -1.
IndexOf(s, tr, from) ==
    LET hits == {i \in Max(0, from)..(Len(s) - Len(tr)) : MatchAt(s, tr, i)}
    IN  IF hits = {} THEN -1
        ELSE CHOOSE i \in hits : \A j \in hits : i <= j

\* String.prototype.includes.
Includes(s, w) == IndexOf(s, w, 0) # -1

\* escHtml: textContent in, innerHTML out.  The HTML fragment serializer
\* escapes &, < and > of a text node.
EscChar(c) ==
    IF c = "&" THEN "&amp;"
    ELSE IF c = "<" THEN "&lt;"
    ELSE IF c = ">" THEN "&gt;"
    ELSE c

RECURSIVE escHtml(_)
escHtml(s) == IF s = "" THEN "" ELSE EscChar(Head(s)) \o escHtml(Tail(s))

-----------------------------------------------------------------------------
(* The trigger table and highlightWords.                                   *)

TILT_TRIGGERS ==
    [ T1_REASSURANCE_DRIFT |->
        << "don't worry", "rest assured", "no problem", "it's okay",
           "everything is fine", "i assure you", "trust me", "under control",
           "handled", "taken care" >>,
      T2_CERTAINTY_INFLATION |->
        << "guarantee", "guaranteed", "will definitely", "without a doubt",
           "no question", "100%", "certainly", "absolutely" >>,
      T3_SCOPE_EXPANSION |->
        << "also", "additionally", "furthermore", "moreover", "not only",
           "on top of", "plus", "another thing", "while we're at it" >>,
      T4_CAPABILITY_OVERREACH |->
        << "we can handle", "no problem", "easy", "simple", "of course",
           "absolutely", "definitely can" >>,
      T5_ABSOLUTE_LANGUAGE |->
        << "never", "always", "every", "all", "none", "no one", "everyone",
           "everything", "nothing", "impossible", "completely", "entirely" >>,
      T6_CONSTRAINT_DEFERRAL |->
        << "later", "eventually", "phase 2", "we'll figure it out",
           "future iteration", "down the road", "at some point", "soon" >>,
      T7_CATEGORY_BLEND |->
        << "kind of", "sort of", "basically", "overall", "in other words",
           "at the end of the day" >>,
      T8_PRESSURE_OPTIMIZATION |->
        << "act now", "don't miss", "limited time", "running out",
           "already joined", "momentum", "urgent", "immediately" >>,
      T9_SCOPE_EXPANSION |->
        << "also", "additionally", "moreover", "while we're at it",
           "on top of that", "not only" >>,
      T10_AUTHORITY_IMPOSITION |->
        << "experts agree", "industry standard", "research shows",
           "studies show", "best practice", "widely accepted",
           "everyone knows" >> ]

\* TILT_TRIGGERS[tiltTag] || [].  TILT_TRIGGERS is an object literal, so a
\* property read also finds what Object.prototype holds: "constructor" is the
\* function Object (length 1), "toString" a function of length 0, and
\* "__proto__" the prototype object, which has no length.  Such a value is
\* truthy and is not replaced by [].
TriggersOf(tiltTag) ==
    IF tiltTag \in DOMAIN TILT_TRIGGERS
    THEN [kind |-> "array", items |-> TILT_TRIGGERS[tiltTag],
          length |-> Len(TILT_TRIGGERS[tiltTag])]
    ELSE IF tiltTag = "constructor"
    THEN [kind |-> "function", items |-> <<>>, length |-> 1]
    ELSE IF tiltTag = "toString"
    THEN [kind |-> "function", items |-> <<>>, length |-> 0]
    ELSE IF tiltTag = "__proto__"
    THEN [kind |-> "object", items |-> <<>>, length |-> 0]
    ELSE [kind |-> "array", items |-> <<>>, length |-> 0]

\* Array.prototype.sort is stable: x goes before the first element that the
\* comparator puts strictly after it.
RECURSIVE InsertByLengthDesc(_, _)
InsertByLengthDesc(sorted, tr) ==
    IF sorted = <<>> THEN <<tr>>
    ELSE IF Len(tr) > Len(Head(sorted)) THEN <<tr>> \o sorted
    ELSE <<Head(sorted)>> \o InsertByLengthDesc(Tail(sorted), tr)

\* [...triggers].sort((a, b) => b.length - a.length)
RECURSIVE SortByLengthDesc(_, _)
SortByLengthDesc(done, rest) ==
    IF rest = <<>> THEN done
    ELSE SortByLengthDesc(InsertByLengthDesc(done, Head(rest)), Tail(rest))

RECURSIVE InsertByStart(_, _)
InsertByStart(sorted, m) ==
    IF sorted = <<>> THEN <<m>>
    ELSE IF m.start < Head(sorted).start THEN <<m>> \o sorted
    ELSE <<Head(sorted)>> \o InsertByStart(Tail(sorted), m)

\* marks.sort((a, b) => a.start - b.start)
RECURSIVE SortByStart(_, _)
SortByStart(done, rest) ==
    IF rest = <<>> THEN done
    ELSE SortByStart(InsertByStart(done, Head(rest)), Tail(rest))

\* The while loop of one trigger: every occurrence from offset i on, the
\* search resuming at the occurrence's start + 1.
RECURSIVE ScanTrigger(_, _, _)
ScanTrigger(lower, tr, i) ==
    IF i = -1 THEN <<>>
    ELSE <<[start |-> i, end |-> i + Len(tr)]>>
         \o ScanTrigger(lower, tr, IndexOf(lower, tr, i + 1))

\* sorted.forEach(tr => ...): the marks of all triggers, in trigger order.
RECURSIVE CollectMarks(_, _)
CollectMarks(lower, sorted) ==
    IF sorted = <<>> THEN <<>>
    ELSE ScanTrigger(lower, Head(sorted), IndexOf(lower, Head(sorted), 0))
         \o CollectMarks(lower, Tail(sorted))

\* The merge step without Math.max: the span ends where the last merged
\* occurrence ends.
MergeStep_NoMax(merged, m) ==
    IF merged # <<>> /\ m.start <= merged[Len(merged)].end
    THEN [merged EXCEPT ![Len(merged)].end = m.end]
    ELSE Append(merged, m)

\* One step of the merge loop.
MergeStep(merged, m) ==
    IF merged # <<>> /\ m.start <= merged[Len(merged)].end
    THEN [merged EXCEPT ![Len(merged)].end = Max(merged[Len(merged)].end, m.end)]
    ELSE Append(merged, m)

\* marks.forEach(m => ...) into merged.
RECURSIVE MergeMarks(_, _)
MergeMarks(merged, marks) ==
    IF marks = <<>> THEN merged
    ELSE MergeMarks(MergeStep(merged, Head(marks)), Tail(marks))

\* A segment whose text was escaped before it is escaped for the output.
Segment_EscapedTwice(raw, isMark) ==
    [raw |-> raw, mark |-> isMark, html |-> escHtml(escHtml(raw))]

\* A segment of the output: its raw text, whether it is wrapped in
\* <mark class="nti-hl">, and the escaped text written to the output.
Segment(raw, isMark) == [raw |-> raw, mark |-> isMark, html |-> escHtml(raw)]

\* The emit loop with pos left at the span's start instead of its end.
RECURSIVE EmitSegments_PosAtStart(_, _, _)
EmitSegments_PosAtStart(text, merged, pos) ==
    IF merged = <<>> THEN <<Segment(SubstringFrom(text, pos), FALSE)>>
    ELSE LET m == Head(merged)
         IN  << Segment(Substring(text, pos, m.start), FALSE),
                Segment(Substring(text, m.start, m.end), TRUE) >>
             \o EmitSegments_PosAtStart(text, Tail(merged), m.start)

\* merged.forEach(m => ...) and the trailing text.substring(pos).
RECURSIVE EmitSegments(_, _, _)
EmitSegments(text, merged, pos) ==
    IF merged = <<>> THEN <<Segment(SubstringFrom(text, pos), FALSE)>>
    ELSE LET m == Head(merged)
         IN  << Segment(Substring(text, pos, m.start), FALSE),
                Segment(Substring(text, m.start, m.end), TRUE) >>
             \o EmitSegments(text, Tail(merged), m.end)

\* highlightWords(text, tiltTag): what the call produces.
highlightWords(text, tiltTag) ==
    LET triggers == TriggersOf(tiltTag)
    IN  IF triggers.length = 0
        THEN [status |-> "returned", text |-> text, tag |-> tiltTag,
              marks |-> <<>>, merged |-> <<>>,
              segs |-> <<Segment(text, FALSE)>>]
        ELSE IF triggers.kind # "array"
        THEN \* [...triggers] of a value that is not iterable: TypeError
             [status |-> "raised", text |-> text, tag |-> tiltTag,
              marks |-> <<>>, merged |-> <<>>, segs |-> <<>>]
        ELSE LET lower  == ToLowerCase(text)
                 sorted == SortByLengthDesc(<<>>, triggers.items)
                 marks  == SortByStart(<<>>, CollectMarks(lower, sorted))
                 merged == MergeMarks(<<>>, marks)
             IN  [status |-> "returned", text |-> text, tag |-> tiltTag,
                  marks |-> marks, merged |-> merged,
                  segs |-> EmitSegments(text, merged, 0)]

\* The string highlightWords returns.
RECURSIVE OutputHtml(_)
OutputHtml(segs) ==
    IF segs = <<>> THEN ""
    ELSE (IF Head(segs).mark
          THEN "<mark class=\"nti-hl\">" \o Head(segs).html \o "</mark>"
          ELSE Head(segs).html)
         \o OutputHtml(Tail(segs))

-----------------------------------------------------------------------------
(* The lexicons and enrichText.                                            *)

VAGUE_WORDS ==
    << "values", "opportunity", "community", "leadership", "service", "vision",
       "future", "better", "great", "special", "incredible", "amazing",
       "wonderful", "fantastic", "beautiful", "important", "committed",
       "dedicated", "passionate", "believe", "proud", "honored", "privilege",
       "thrilled" >>

SPECIFIC_WORDS ==
    << "percent", "million", "billion", "budget", "tax", "fund", "program",
       "plan", "policy", "reduce", "increase", "build", "hire", "cut", "invest",
       "allocate", "deadline", "quarter", "department", "ordinance",
       "resolution", "vote", "approve", "audit", "review" >>

EMO_HIGH ==
    << "outraged", "disgusted", "thrilled", "devastated", "ecstatic", "furious",
       "terrified", "horrified", "elated", "desperate" >>

EMO_MOD ==
    << "worried", "excited", "frustrated", "disappointed", "proud", "grateful",
       "angry", "scared", "hopeful", "concerned" >>

\* The code units \s matches, of those the model's texts hold.
IsSpace(c) == c \in {" ", "\t", "\n"}

\* s.split(/\s+/): the pieces of s between the runs of whitespace, `cur` the
\* piece being read and `inRun` whether the last code unit was whitespace.
\* A run at the start or at the end of s has the empty string on that side.
RECURSIVE SplitFrom(_, _, _)
SplitFrom(s, cur, inRun) ==
    IF s = "" THEN <<cur>>
    ELSE IF IsSpace(Head(s))
    THEN IF inRun THEN SplitFrom(Tail(s), "", TRUE)
         ELSE <<cur>> \o SplitFrom(Tail(s), "", TRUE)
    ELSE SplitFrom(Tail(s), cur \o Head(s), FALSE)

SplitWhitespace(s) == SplitFrom(s, "", FALSE)

\* LEXICON.forEach(w => { if (lower.includes(w)) { n++; list.push(w); }}):
\* the list, and the counter that is incremented with each push.
MatchList(lower, lexicon) == SelectSeq(lexicon, LAMBDA w : Includes(lower, w))

\* The counter incremented once per occurrence instead of once per word.
RECURSIVE MatchCount_PerOccurrence(_, _)
MatchCount_PerOccurrence(lower, lexicon) ==
    IF lexicon = <<>> THEN 0
    ELSE Cardinality({i \in 0..(Len(lower) - Len(Head(lexicon))) :
                        MatchAt(lower, Head(lexicon), i)})
         + MatchCount_PerOccurrence(lower, Tail(lexicon))

RECURSIVE MatchCount(_, _)
MatchCount(lower, lexicon) ==
    IF lexicon = <<>> THEN 0
    ELSE (IF Includes(lower, Head(lexicon)) THEN 1 ELSE 0)
         + MatchCount(lower, Tail(lexicon))

\* Math.round of the rational n / d, d > 0: the nearest integer, a half
\* going up.
RoundDiv(n, d) == (2 * n + d) \div (2 * d)

\* The emotional charge without Math.min.
emoOf_NoClamp(hH, mH, total) == RoundDiv((hH * 6 + mH * 3) * 400, total)

\* Math.min(100, Math.round((hH*3 + mH*1.5) / total * 800)); the halves are
\* kept exact by doubling the weights: (6 hH + 3 mH) * 400 / total.
emoOf(hH, mH, total) == Min(100, RoundDiv((hH * 6 + mH * 3) * 400, total))

\* enrichText(text): the object the call returns, and the divisor `total`
\* the call used.
enrichText(text) ==
    LET lower == ToLowerCase(text)
        words == SplitWhitespace(lower)
        total == Max(Len(words), 1)
        hH == MatchCount(lower, EMO_HIGH)
        mH == MatchCount(lower, EMO_MOD)
    IN  [status |-> "returned",
         text |-> text,
         vague |-> MatchCount(lower, VAGUE_WORDS),
         specific |-> MatchCount(lower, SPECIFIC_WORDS),
         vagueList |-> MatchList(lower, VAGUE_WORDS),
         specificList |-> MatchList(lower, SPECIFIC_WORDS),
         emo |-> emoOf(hH, mH, total),
         wordCount |-> Len(words),
         total |-> total]

-----------------------------------------------------------------------------
(* Inputs of highlightWords, and the specification that applies it.        *)

\* The pieces texts are put together from: trigger phrases of the tags
\* below in lower and mixed case, phrases that overlap one another
\* ("momentum" + "omentum"), a phrase that holds another ("guaranteed"), a
\* separator, the markup characters and U+0130.
Pieces ==
    { "act now", "Act Now", ", ", "^", "momentum", "omentum",
      "guarantee", "guaranteed", "absolutely", "<&>" }

RECURSIVE TextsOf(_)
TextsOf(n) ==
    IF n = 0 THEN {""}
    ELSE LET shorter == TextsOf(n - 1)
         IN  shorter \cup {t \o p : t \in shorter, p \in Pieces}

Texts == TextsOf(MaxPieces)

\* Tags of the trigger table, a tag that is in no table, and names that
\* Object.prototype defines.
Tags ==
    { "T2_CERTAINTY_INFLATION", "T8_PRESSURE_OPTIMIZATION", "T11_UNKNOWN",
      "constructor", "toString", "__proto__" }

\* Texts of Math.random().toString(36): two whose first six digits after
\* the point are the same, and a short one (0.5).
Randoms == {"0.4fzyo82mvyr", "0.4fzyo8c1k2a", "0.i"}

\* The containers of the document that renderInline may fill, in document
\* order.
Containers == <<"result_a", "result_b">>

\* A container without an instance.
NoInstance ==
    [present |-> FALSE, uid |-> "", originalText |-> "", rows |-> <<>>,
     display |-> "none", name |-> "", body |-> ""]

NoPage == [c \in 1..Len(Containers) |-> NoInstance]

NoCall == [status |-> "none"]
NoAnalytics == [status |-> "none"]
NoEngine == [status |-> "none"]
NoShell == [status |-> "none"]
NoData == [shape |-> "none"]
NoView == [status |-> "none"]

Init ==
    /\ argText \in Texts
    /\ argData = NoData
    /\ hl = NoCall
    /\ view = NoView
    /\ en = NoCall
    /\ page = NoPage
    /\ log = <<>>
    /\ analytics = NoAnalytics
    /\ engine = NoEngine
    /\ shell = NoShell

\* A call highlightWords(argText, tiltTag).
HighlightWords(tiltTag) ==
    /\ hl' = highlightWords(argText, tiltTag)
    /\ UNCHANGED <<argText, argData, view, en, page, log, analytics, engine, shell>>

Next == \E tiltTag \in Tags : HighlightWords(tiltTag)

Spec == Init /\ [][Next]_vars

-----------------------------------------------------------------------------
(* Properties of highlightWords.                                           *)

RECURSIVE ConcatRaw(_)
ConcatRaw(segs) ==
    IF segs = <<>> THEN "" ELSE Head(segs).raw \o ConcatRaw(Tail(segs))

\* The offset in the text at which segment k of segs starts.
RECURSIVE SegStart(_, _)
SegStart(segs, k) ==
    IF k = 1 THEN 0 ELSE SegStart(segs, k - 1) + Len(segs[k - 1].raw)

SegEnd(segs, k) == SegStart(segs, k) + Len(segs[k].raw)

\* The code units of the text at offsets [i, j) lie in one highlighted segment.
InOneHighlight(segs, i, j) ==
    \E k \in 1..Len(segs) :
        /\ segs[k].mark
        /\ SegStart(segs, k) <= i
        /\ j <= SegEnd(segs, k)

\* A case-insensitive occurrence of the phrase tr at offset i of the text:
\* the code units at [i, i + Len(tr)) lowercase, one by one, to those of tr.
\* (A code unit that lowercases to more than one is in no occurrence: no
\* trigger contains U+0307.)
OccursAt(text, tr, i) ==
    /\ i + Len(tr) <= Len(text)
    /\ \A k \in 0..(Len(tr) - 1) : LowerChar(CharAt(text, i + k)) = CharAt(tr, k)

Range(seq) == {seq[k] : k \in 1..Len(seq)}

\* The occurrences [i, j) of the triggers of tag in text.
Occurrences(text, tag) ==
    {<<i, i + Len(tr)>> : <<i, tr>> \in
        {<<i, tr>> \in (0..Len(text)) \X Range(TILT_TRIGGERS[tag]) :
            OccursAt(text, tr, i)}}

HlReturned == hl.status = "returned"
HlKnownTag == HlReturned /\ hl.tag \in DOMAIN TILT_TRIGGERS

C2_OccurrencesHighlighted ==
    HlKnownTag =>
        \A o \in Occurrences(hl.text, hl.tag) : InOneHighlight(hl.segs, o[1], o[2])

\* C3: every highlighted code unit belongs to some occurrence of a trigger of
\* the tag, so a code unit between two occurrences that is in no occurrence
\* is not highlighted and the two occurrences are two highlighted segments.
C3_OnlyOccurrencesHighlighted ==
    HlKnownTag =>
        \A k \in 1..Len(hl.segs) :
            hl.segs[k].mark =>
                \A p \in SegStart(hl.segs, k)..(SegEnd(hl.segs, k) - 1) :
                    \E o \in Occurrences(hl.text, hl.tag) : o[1] <= p /\ p < o[2]

\* C4: after the merge the spans are in strictly increasing order with at
\* least one code unit between consecutive spans, every found occurrence lies
\* in one span, and every span starts at the least start and ends at the
\* greatest end of the occurrences it holds.
C4_MergedSpans ==
    HlReturned =>
        LET marks == hl.marks
            merged == hl.merged
            within(s) == {k \in 1..Len(marks) :
                            s.start <= marks[k].start /\ marks[k].end <= s.end}
        IN  /\ \A k \in 1..Len(merged) : merged[k].start < merged[k].end
            /\ \A k \in 1..(Len(merged) - 1) : merged[k + 1].start > merged[k].end
            /\ \A k \in 1..Len(marks) :
                  Cardinality({n \in 1..Len(merged) : k \in within(merged[n])}) = 1
            /\ \A n \in 1..Len(merged) :
                  /\ \E k \in within(merged[n]) : marks[k].start = merged[n].start
                  /\ \E k \in within(merged[n]) : marks[k].end = merged[n].end

\* Two triggers found at the same offset ("guaranteed" and "guarantee")
\* and an occurrence elsewhere: fewer spans than occurrences, more than one.
C4_Witness ==
    /\ HlReturned
    /\ Len(hl.merged) >= 2
    /\ \E j, k \in 1..Len(hl.marks) :
          /\ j < k
          /\ hl.marks[j].start = hl.marks[k].start
          /\ hl.marks[j].end > hl.marks[k].end
          /\ \E n \in 1..Len(hl.merged) :
                hl.merged[n].start = hl.marks[j].start /\ hl.merged[n].end = hl.marks[j].end

-----------------------------------------------------------------------------
(* The result object and render.                                           *)
(*                                                                         *)
(* A JavaScript value that may be missing is written as follows.  A        *)
(* sub-object or list is a record with a field `present`; a string is the  *)
(* string itself or UNDEF; a q-flag is the text of its literal             *)
(* ("undefined", "0", "1", "false").                                       *)

UNDEF == "<undefined>"

\* Truthiness of a string value.
TruthyStr(v) == v # UNDEF /\ v # ""

\* a || b for string values.
OrStr(a, b) == IF TruthyStr(a) THEN a ELSE b

\* v ?? 0 for a q-flag.
NullishZero(v) == IF v = "undefined" THEN "0" ELSE v

\* Truthiness of a q-flag.
TruthyFlag(v) == v \notin {"undefined", "0", "false"}

\* x || [] for a list: the length of the result.
ListLength(list) == IF list.present THEN Len(list.items) ELSE 0

MissingList == [present |-> FALSE, items |-> <<>>]
ListOf(items) == [present |-> TRUE, items |-> items]

MissingEntry ==
    [present |-> FALSE, udds_state |-> UNDEF, dce_state |-> UNDEF, cca_state |-> UNDEF]
EmptyEntry == [MissingEntry EXCEPT !.present = TRUE]

\* data.parent_failure_modes || {}
MissingFm ==
    [present |-> FALSE, UDDS |-> MissingEntry, DCE |-> MissingEntry, CCA |-> MissingEntry]

\* data.nii || {}
MissingNii ==
    [present |-> FALSE, nii_score |-> [present |-> FALSE, value |-> 0],
     q1_constraints_explicit |-> "undefined",
     q2_constraints_before_capability |-> "undefined",
     q3_substitutes_after_enforcement |-> "undefined"]

\* layers.L0_reality_substrate || {}, layers.L1_input_freeze || {},
\* layers.L2_interpretive_framing || {}
MissingL0 == [present |-> FALSE, constraints_found |-> MissingList]
MissingL1 == [present |-> FALSE, objective |-> UNDEF]
MissingL2 ==
    [present |-> FALSE, hedge_markers |-> MissingList,
     reassurance_markers |-> MissingList, category_blend_markers |-> MissingList]

\* data.layers || {}
MissingLayers ==
    [present |-> FALSE, L0_reality_substrate |-> MissingL0,
     L1_input_freeze |-> MissingL1, L2_interpretive_framing |-> MissingL2]

\* data.interaction_matrix || {}
MissingMatrix == [present |-> FALSE, dominance_detected |-> MissingList]

\* data.telemetry, read with ?.
MissingTelemetry == [present |-> FALSE, latency_ms |-> UNDEF]

\* The colour of the score footer.
scoreClassOf(score) ==
    IF score >= 80 THEN "green" ELSE IF score >= 50 THEN "amber" ELSE "red"

\* The three codes and the state key render passes to _fm for each.
FM_CODES == <<"UDDS", "DCE", "CCA">>
StateKeyOf(code) ==
    IF code = "UDDS" THEN "udds_state"
    ELSE IF code = "DCE" THEN "dce_state" ELSE "cca_state"

\* fm[k]
EntryOf(fm, code) ==
    IF ~fm.present THEN MissingEntry
    ELSE IF code = "UDDS" THEN fm.UDDS
    ELSE IF code = "DCE" THEN fm.DCE ELSE fm.CCA

\* obj[stateKey]
StateAt(obj, stateKey) ==
    IF stateKey = "udds_state" THEN obj.udds_state
    ELSE IF stateKey = "dce_state" THEN obj.dce_state ELSE obj.cca_state

\* The st of the fmCount filter:
\*   fm[k] ? (fm[k].udds_state || fm[k].dce_state || fm[k].cca_state) : ''
FilterState(fm, code) ==
    LET e == EntryOf(fm, code)
    IN  IF e.present
        THEN OrStr(OrStr(e.udds_state, e.dce_state), e.cca_state)
        ELSE ""

\* st.includes(...) of a value that is undefined raises a TypeError.
FilterRaises(fm, code) == FilterState(fm, code) = UNDEF

\* The predicate of the fmCount filter.
FilterActive(fm, code) ==
    LET st == FilterState(fm, code)
    IN  Includes(st, "CONFIRMED") \/ Includes(st, "PROBABLE")

\* ['UDDS','DCE','CCA'].filter(...).length
fmCountOf(fm) ==
    Cardinality({k \in 1..Len(FM_CODES) : FilterActive(fm, FM_CODES[k])})

\* (q1===0?1:0)+(q2===0?1:0)+(q3===0?1:0)
\*   + hedges.length + reassurances.length + tilt.length
IsZero(q) == IF NullishZero(q) = "0" THEN 1 ELSE 0

issueCountOf(nii, l2, tilt) ==
    IsZero(nii.q1_constraints_explicit)
    + IsZero(nii.q2_constraints_before_capability)
    + IsZero(nii.q3_substitutes_after_enforcement)
    + ListLength(l2.hedge_markers)
    + ListLength(l2.reassurance_markers)
    + ListLength(tilt)

\* The verdict with the thresholds compared strictly.
vClassOf_Strict(issueCount, fmCount) ==
    IF issueCount = 0 /\ fmCount = 0 THEN "nti-v-clean"
    ELSE IF fmCount > 2 \/ issueCount > 6 THEN "nti-v-critical"
    ELSE "nti-v-warning"

\* The if / else if / else that picks the verdict class.
vClassOf(issueCount, fmCount) ==
    IF issueCount = 0 /\ fmCount = 0 THEN "nti-v-clean"
    ELSE IF fmCount >= 2 \/ issueCount >= 6 THEN "nti-v-critical"
    ELSE "nti-v-warning"

\* _ck(label, val, neutral), val a q-flag after ?? 0.
_ck(label, val, neutral) ==
    [label |-> label,
     cls |-> IF neutral THEN "neutral" ELSE IF TruthyFlag(val) THEN "pass" ELSE "fail",
     txt |-> IF neutral THEN "NONE" ELSE IF TruthyFlag(val) THEN "YES" ELSE "NO"]

\* _fm with PROBABLE tested before CONFIRMED.
_fm_ProbableFirst(name, obj, stateKey) ==
    IF ~obj.present
    THEN [name |-> name, cls |-> "clear", status |-> "green", label |-> "CLEAR",
          desc |-> FALSE]
    ELSE LET st == OrStr(StateAt(obj, stateKey), "")
             confirmed == Includes(st, "CONFIRMED")
             probable == Includes(st, "PROBABLE")
             isActive == confirmed \/ probable
         IN  [name |-> name,
              cls |-> IF isActive THEN "active" ELSE "clear",
              status |-> IF probable THEN "amber" ELSE IF confirmed THEN "red" ELSE "green",
              label |-> IF probable THEN "PROBABLE"
                        ELSE IF confirmed THEN "DETECTED" ELSE "CLEAR",
              desc |-> isActive]

\* _fm(name, desc, obj, stateKey): the row's class, status colour and label,
\* and whether the description is shown.
_fm(name, obj, stateKey) ==
    IF ~obj.present
    THEN [name |-> name, cls |-> "clear", status |-> "green", label |-> "CLEAR",
          desc |-> FALSE]
    ELSE LET st == OrStr(StateAt(obj, stateKey), "")
             confirmed == Includes(st, "CONFIRMED")
             probable == Includes(st, "PROBABLE")
             isActive == confirmed \/ probable
         IN  [name |-> name,
              cls |-> IF isActive THEN "active" ELSE "clear",
              status |-> IF confirmed THEN "red" ELSE IF probable THEN "amber" ELSE "green",
              label |-> IF confirmed THEN "DETECTED"
                        ELSE IF probable THEN "PROBABLE" ELSE "CLEAR",
              desc |-> isActive]

\* The label and the description of each tilt definition (the icons are
\* left out).
TILT_DEFS ==
    [ T1_REASSURANCE_DRIFT |->
        [label |-> "Reassurance Drift",
         short |-> "Reassurance used instead of evidence."],
      T2_CERTAINTY_INFLATION |->
        [label |-> "Certainty Inflation",
         short |-> "Claims certainty without proof."],
      T3_SCOPE_EXPANSION |->
        [label |-> "Scope Expansion",
         short |-> "Widens the topic without acknowledging it."],
      T4_CAPABILITY_OVERREACH |->
        [label |-> "Capability Overreach",
         short |-> "Promises beyond what can be delivered."],
      T5_ABSOLUTE_LANGUAGE |->
        [label |-> "Absolute Language",
         short |-> "Uses never/always/every without evidence."],
      T6_CONSTRAINT_DEFERRAL |->
        [label |-> "Constraint Deferral",
         short |-> "Pushes limits to an unspecified later."],
      T7_CATEGORY_BLEND |->
        [label |-> "Category Blend",
         short |-> "Mixes unrelated things to obscure meaning."],
      T8_PRESSURE_OPTIMIZATION |->
        [label |-> "Pressure Pattern",
         short |-> "Uses urgency or social proof without substance."],
      T9_SCOPE_EXPANSION |->
        [label |-> "Scope Expansion",
         short |-> "Widens scope without acknowledging the shift."],
      T10_AUTHORITY_IMPOSITION |->
        [label |-> "Authority Imposition",
         short |-> "Defers to unnamed authority."] ]

\* The property names of the model's tags that an object literal inherits
\* from Object.prototype.
InheritedNames == {"constructor", "toString", "__proto__"}

\* t.replace(/_/g, ' ')
RECURSIVE Humanize(_)
Humanize(t) ==
    IF t = "" THEN ""
    ELSE (IF Head(t) = "_" THEN " " ELSE Head(t)) \o Humanize(Tail(t))

\* TILT_DEFS[t] || {label: t.replace(/_/g,' '), short: ''}, as the template
\* prints its label and short.  An inherited property is truthy and has
\* neither field: the template prints "undefined" for both.
TiltDefOf(t) ==
    IF t \in DOMAIN TILT_DEFS THEN TILT_DEFS[t]
    ELSE IF t \in InheritedNames
    THEN [label |-> "undefined", short |-> "undefined"]
    ELSE [label |-> Humanize(t), short |-> ""]

\* tilt.map(t => ...): one row per entry, with data-tilt, name and
\* description.
TiltRowsOf(tilt) ==
    [k \in 1..ListLength(tilt) |->
        [tag |-> tilt.items[k],
         label |-> TiltDefOf(tilt.items[k]).label,
         short |-> TiltDefOf(tilt.items[k]).short]]

\* 'nti_' + Math.random().toString(36).substring(2, 8), `random` the text
\* of Math.random().toString(36).
uidOf(random) == "nti_" \o Substring(random, 2, 8)

\* render(data, originalText): what the call produces, `random` the text of
\* Math.random().toString(36) in this call.
render(data, originalText, random) ==
    LET nii == IF data.nii.present THEN data.nii ELSE MissingNii
        fm == IF data.parent_failure_modes.present
              THEN data.parent_failure_modes ELSE MissingFm
        tilt == data.tilt_taxonomy
        matrix == IF data.interaction_matrix.present
                  THEN data.interaction_matrix ELSE MissingMatrix
        dom == IF matrix.dominance_detected.present
               THEN matrix.dominance_detected.items ELSE <<"NONE">>
        layers == IF data.layers.present THEN data.layers ELSE MissingLayers
        l0 == IF layers.L0_reality_substrate.present
              THEN layers.L0_reality_substrate ELSE MissingL0
        l1 == IF layers.L1_input_freeze.present
              THEN layers.L1_input_freeze ELSE MissingL1
        l2 == IF layers.L2_interpretive_framing.present
              THEN layers.L2_interpretive_framing ELSE MissingL2
        objective == OrStr(l1.objective, "")
        score == IF nii.nii_score.present THEN nii.nii_score.value ELSE 0
        lat == IF data.telemetry.present
               THEN OrStr(data.telemetry.latency_ms, "-") ELSE "-"
        ver == OrStr(data.version, "?")
        q1 == NullishZero(nii.q1_constraints_explicit)
        q2 == NullishZero(nii.q2_constraints_before_capability)
        q3 == NullishZero(nii.q3_substitutes_after_enforcement)
        issueCount == issueCountOf(nii, l2, tilt)
        enrich == enrichText(OrStr(originalText, ""))
    IN  IF \E k \in 1..Len(FM_CODES) : FilterRaises(fm, FM_CODES[k])
        THEN [status |-> "raised"]
        ELSE LET fmCount == fmCountOf(fm)
             IN  [status |-> "returned",
                  uid |-> uidOf(random),
                  originalText |-> OrStr(originalText, ""),
                  issueCount |-> issueCount,
                  fmCount |-> fmCount,
                  vClass |-> vClassOf(issueCount, fmCount),
                  checks |->
                    << _ck("Constraints stated", q1, FALSE),
                       _ck("Constraints before promises", q2, FALSE),
                       _ck("Boundaries enforced", q3, FALSE),
                       _ck("Objective detected",
                           IF objective # "" THEN "1" ELSE "0", objective = "") >>,
                  constraints |-> ListLength(l0.constraints_found),
                  hedges |-> ListLength(l2.hedge_markers),
                  reassurances |-> ListLength(l2.reassurance_markers),
                  fmRows |->
                    << _fm("UDDS", EntryOf(fm, "UDDS"), "udds_state"),
                       _fm("DCE", EntryOf(fm, "DCE"), "dce_state"),
                       _fm("CCA", EntryOf(fm, "CCA"), "cca_state") >>,
                  dominant |-> IF dom = <<>> THEN TRUE ELSE dom[1] # "NONE",
                  tiltRows |-> TiltRowsOf(tilt),
                  enrich |-> enrich,
                  scoreClass |-> scoreClassOf(score),
                  lat |-> lat,
                  ver |-> ver]

-----------------------------------------------------------------------------
(* Inputs of render, and the specification that applies it.                *)

\* State strings the scoring service may send: empty, inactive, the two
\* active ones, and a compound one that holds both substrings.
StateStrings == {"", "CLEAR", "PROBABLE", "CONFIRMED_X", "PROBABLE_OR_CONFIRMED"}

StateKeys == {"udds_state", "dce_state", "cca_state"}

\* A failure-mode entry: missing, present without a state, or present with
\* one state string under one of the three keys.
Entries ==
    {MissingEntry, EmptyEntry}
    \cup {[EmptyEntry EXCEPT ![key] = st] : key \in StateKeys, st \in StateStrings}

OwnEntry(code, st) == [EmptyEntry EXCEPT ![StateKeyOf(code)] = st]

AllFm ==
    {MissingFm}
    \cup [present : {TRUE}, UDDS : Entries, DCE : Entries, CCA : Entries]

\* A few failure-mode mappings: none, no entry, one probable, two confirmed,
\* an entry without a state.
FewFm ==
    { MissingFm,
      [MissingFm EXCEPT !.present = TRUE],
      [MissingFm EXCEPT !.present = TRUE, !.UDDS = OwnEntry("UDDS", "PROBABLE")],
      [MissingFm EXCEPT !.present = TRUE, !.UDDS = OwnEntry("UDDS", "CONFIRMED_X"),
                        !.CCA = OwnEntry("CCA", "CONFIRMED_X")],
      [MissingFm EXCEPT !.present = TRUE, !.DCE = EmptyEntry] }

QFlags == {"undefined", "0", "1", "false"}

NiiOf(q1, q2, q3) ==
    [present |-> TRUE, nii_score |-> [present |-> FALSE, value |-> 0],
     q1_constraints_explicit |-> q1,
     q2_constraints_before_capability |-> q2,
     q3_substitutes_after_enforcement |-> q3]

AllNii == {MissingNii} \cup {NiiOf(q1, q2, q3) : q1, q2, q3 \in QFlags}

\* A list of n markers.
Markers(n) == ListOf([k \in 1..n |-> "marker"])

\* layers with hedge and reassurance lists of the given lengths; with
\* `others`, also a constraint found, an objective and a category-blend marker.
LayersOf(h, r, others) ==
    [present |-> TRUE,
     L0_reality_substrate |->
        IF others THEN [present |-> TRUE, constraints_found |-> Markers(1)]
        ELSE MissingL0,
     L1_input_freeze |->
        IF others THEN [present |-> TRUE, objective |-> "ship by Friday"]
        ELSE MissingL1,
     L2_interpretive_framing |->
        [present |-> TRUE, hedge_markers |-> Markers(h),
         reassurance_markers |-> Markers(r),
         category_blend_markers |-> IF others THEN Markers(1) ELSE MissingList]]

AllLayers ==
    { MissingLayers,
      [MissingLayers EXCEPT !.present = TRUE],
      [MissingLayers EXCEPT !.present = TRUE,
                            !.L2_interpretive_framing.present = TRUE,
                            !.L1_input_freeze = [present |-> TRUE, objective |-> ""]] }
    \cup {LayersOf(h, r, others) :
            h \in 0..MaxMarkers, r \in 0..MaxMarkers, others \in BOOLEAN}

TiltTags == {"T2_CERTAINTY_INFLATION", "T11_UNKNOWN"}

RECURSIVE SeqsUpTo(_, _)
SeqsUpTo(S, n) ==
    IF n = 0 THEN {<<>>}
    ELSE LET shorter == SeqsUpTo(S, n - 1)
         IN  shorter \cup {Append(q, x) : q \in shorter, x \in S}

AllTilt == {MissingList} \cup {ListOf(q) : q \in SeqsUpTo(TiltTags, MaxTilt)}

\* A result object in which every optional part is missing.
BareData ==
    [nii |-> MissingNii, parent_failure_modes |-> MissingFm,
     tilt_taxonomy |-> MissingList, interaction_matrix |-> MissingMatrix,
     layers |-> MissingLayers, telemetry |-> MissingTelemetry, version |-> UNDEF]

\* A result object without any finding.
CleanData ==
    [BareData EXCEPT !.nii = NiiOf("1", "1", "1"), !.tilt_taxonomy = ListOf(<<>>),
                     !.layers = LayersOf(0, 0, FALSE)]

\* Every failure-mode mapping, with no issue, three issues, many issues.
FmFamily ==
    {[d EXCEPT !.parent_failure_modes = fm] :
        fm \in AllFm,
        d \in { CleanData, BareData,
                [BareData EXCEPT !.layers = LayersOf(MaxMarkers, MaxMarkers, TRUE),
                                 !.tilt_taxonomy = ListOf(<<"T2_CERTAINTY_INFLATION">>)] }}

\* Every flag, marker and tilt combination, with a few failure-mode mappings.
IssueFamily ==
    {[BareData EXCEPT !.parent_failure_modes = fm, !.nii = nii, !.layers = layers,
                      !.tilt_taxonomy = tilt] :
        fm \in FewFm, nii \in AllNii, layers \in AllLayers, tilt \in AllTilt}

\* The display-only parts, missing, empty and filled.
DisplayFamily ==
    {[CleanData EXCEPT !.interaction_matrix = matrix, !.telemetry = telemetry,
                       !.version = version, !.nii.nii_score = score] :
        matrix \in { MissingMatrix,
                     [present |-> TRUE, dominance_detected |-> MissingList],
                     [present |-> TRUE, dominance_detected |-> ListOf(<<>>)],
                     [present |-> TRUE, dominance_detected |-> ListOf(<<"NONE">>)],
                     [present |-> TRUE, dominance_detected |-> ListOf(<<"UDDS", "DCE">>)] },
        telemetry \in { MissingTelemetry,
                        [present |-> TRUE, latency_ms |-> UNDEF],
                        [present |-> TRUE, latency_ms |-> "12"] },
        version \in {UNDEF, "", "2.1"},
        score \in { [present |-> FALSE, value |-> 0], [present |-> TRUE, value |-> 0],
                    [present |-> TRUE, value |-> 50], [present |-> TRUE, value |-> 80] }}

\* Tags of tilt rows: two of the definition table, one of no table, and a
\* name that Object.prototype defines.
RowTags ==
    {"T2_CERTAINTY_INFLATION", "T9_SCOPE_EXPANSION", "T11_UNKNOWN", "constructor"}

\* Every list of row tags, in a result object without any other finding.
TiltFamily ==
    {[CleanData EXCEPT !.tilt_taxonomy = ListOf(q)] : q \in SeqsUpTo(RowTags, MaxTilt)}

Results == FmFamily \cup IssueFamily \cup DisplayFamily \cup TiltFamily

InitRender ==
    /\ argText = ""
    /\ argData \in Results
    /\ hl = NoCall
    /\ view = NoView
    /\ en = NoCall
    /\ page = NoPage
    /\ log = <<>>
    /\ analytics = NoAnalytics
    /\ engine = NoEngine
    /\ shell = NoShell

\* What Math.random gives in the render calls of SpecRender: nothing render
\* shows but the uid depends on it, and the uid is the subject of the
\* specifications of the page.
RenderRandoms == {"0.4fzyo82mvyr"}

\* A call render(argData, argText).
Render ==
    /\ \E random \in RenderRandoms : view' = render(argData, argText, random)
    /\ UNCHANGED <<argText, argData, hl, en, page, log, analytics, engine, shell>>

NextRender == Render

SpecRender == InitRender /\ [][NextRender]_vars

-----------------------------------------------------------------------------
(* Properties of render.  A property of what render shows is stated of     *)
(* the calls that return; C9 is the property that every call returns.      *)

Rendered == view.status = "returned"
RenderCalled == view.status # "none"

\* The result object as render reads it.
DataFm ==
    IF argData.parent_failure_modes.present THEN argData.parent_failure_modes
    ELSE MissingFm
DataNii == IF argData.nii.present THEN argData.nii ELSE MissingNii
DataL2 ==
    IF argData.layers.present /\ argData.layers.L2_interpretive_framing.present
    THEN argData.layers.L2_interpretive_framing ELSE MissingL2

\* The state string of a code: the one its entry holds under the code's key.
OwnState(code) ==
    LET e == EntryOf(DataFm, code)
    IN  IF e.present /\ StateAt(e, StateKeyOf(code)) # UNDEF
        THEN StateAt(e, StateKeyOf(code)) ELSE ""

HasConfirmed(code) == Includes(OwnState(code), "CONFIRMED")
HasProbable(code) == Includes(OwnState(code), "PROBABLE")

RowOf(k) == view.fmRows[k]
ActiveRows == {k \in 1..Len(FM_CODES) : RowOf(k).cls = "active"}

C6_FailureModeRows ==
    Rendered =>
        \A k \in 1..Len(FM_CODES) :
            LET code == FM_CODES[k]
                row == RowOf(k)
            IN  /\ row.name = code
                /\ ~EntryOf(DataFm, code).present =>
                        row.label = "CLEAR" /\ row.cls = "clear"
                /\ HasConfirmed(code) =>
                        row.label = "DETECTED" /\ row.status = "red" /\ row.cls = "active"
                /\ (HasProbable(code) /\ ~HasConfirmed(code)) =>
                        row.label = "PROBABLE" /\ row.status = "amber" /\ row.cls = "active"
                /\ (~HasProbable(code) /\ ~HasConfirmed(code)) =>
                        row.label = "CLEAR" /\ row.status = "green" /\ row.cls = "clear"

\* A render with a row whose state holds both substrings, a probable row and
\* a row without an entry.
C6_Witness ==
    /\ Rendered
    /\ \E k \in 1..Len(FM_CODES) :
          OwnState(FM_CODES[k]) = "PROBABLE_OR_CONFIRMED" /\ RowOf(k).label = "DETECTED"
    /\ \E k \in 1..Len(FM_CODES) : RowOf(k).label = "PROBABLE"
    /\ \E k \in 1..Len(FM_CODES) : ~EntryOf(DataFm, FM_CODES[k]).present

\* C7: the active-failure-mode count of the verdict is the number of rows
\* the same render shows as active.
C7_CountMatchesRows == Rendered => view.fmCount = Cardinality(ActiveRows)

\* C8: the issue count is the number of falsy q-flags plus the numbers of
\* hedge markers, reassurance markers and tilt entries.
FalsyFlags ==
    Cardinality({q \in 1..3 :
        ~TruthyFlag(<< DataNii.q1_constraints_explicit,
                       DataNii.q2_constraints_before_capability,
                       DataNii.q3_substitutes_after_enforcement >>[q])})

C8_IssueCount ==
    Rendered =>
        view.issueCount =
            FalsyFlags + ListLength(DataL2.hedge_markers)
            + ListLength(DataL2.reassurance_markers)
            + ListLength(argData.tilt_taxonomy)

\* C9: every call of render returns; what is missing is shown as CLEAR.
C9_RenderTotal ==
    RenderCalled =>
        /\ Rendered
        /\ \A k \in 1..Len(FM_CODES) :
              OwnState(FM_CODES[k]) = "" => RowOf(k).label = "CLEAR"

\* C10: when two entries hold a state containing CONFIRMED and the third
\* code's state is not active, both rows are DETECTED, the
\* active-failure-mode count is 2 and the verdict is critical.
C10_TwoConfirmed ==
    LET confirmed == {k \in 1..Len(FM_CODES) : HasConfirmed(FM_CODES[k])}
        probable == {k \in 1..Len(FM_CODES) : HasProbable(FM_CODES[k])}
    IN  (Rendered /\ Cardinality(confirmed) = 2 /\ probable \subseteq confirmed) =>
            /\ \A k \in confirmed : RowOf(k).label = "DETECTED"
            /\ view.fmCount = 2
            /\ view.vClass = "nti-v-critical"

-----------------------------------------------------------------------------
(* Inputs of enrichText, and the specification that applies it.            *)

\* Eighteen one-letter words, each after a blank.
Filler == " a b c d e f g h i j k l m n o p q r"

\* The pieces enrichText's texts are put together from: words of the four
\* lexicons in lower and upper case ("proud" and "thrilled" are in two
\* lexicons each), a word that holds a lexicon word ("taxes"), whitespace
\* runs of one and of several code units, and the filler.
EnrichPieces ==
    { "worried", "Furious", "proud", "THRILLED", "community values", "taxes",
      " ", " \n\t", Filler }

RECURSIVE EnrichTextsOf(_)
EnrichTextsOf(n) ==
    IF n = 0 THEN {""}
    ELSE LET shorter == EnrichTextsOf(n - 1)
         IN  shorter \cup {t \o p : t \in shorter, p \in EnrichPieces}

EnrichTexts == EnrichTextsOf(MaxPieces)

InitEnrich ==
    /\ argText \in EnrichTexts
    /\ argData = NoData
    /\ hl = NoCall
    /\ view = NoView
    /\ en = NoCall
    /\ page = NoPage
    /\ log = <<>>
    /\ analytics = NoAnalytics
    /\ engine = NoEngine
    /\ shell = NoShell

\* A call enrichText(argText).
EnrichText ==
    /\ en' = enrichText(argText)
    /\ UNCHANGED <<argText, argData, hl, view, page, log, analytics, engine, shell>>

NextEnrich == EnrichText

SpecEnrich == InitEnrich /\ [][NextEnrich]_vars

-----------------------------------------------------------------------------
(* Properties of enrichText.                                               *)

EnReturned == en.status = "returned"

\* The words of a lexicon that are a substring of s.
WordsIn(s, lexicon) ==
    {w \in Range(lexicon) : \E i \in 0..(Len(s) - Len(w)) : MatchAt(s, w, i)}

\* H and M of the text of the last call.
HighHits == Cardinality(WordsIn(ToLowerCase(en.text), EMO_HIGH))
ModHits == Cardinality(WordsIn(ToLowerCase(en.text), EMO_MOD))

\* Twice the weighted hit count times 800: the charge before rounding and
\* clamping is ChargeTimes2 / (2 * wordCount).
ChargeTimes2 == (3 * HighHits * 2 + 3 * ModHits) * 800

\* C11: the emotional charge is min(100, round((3 H + 1.5 M) * 800 /
\* wordCount)) for the wordCount the call reports, which is at least 1 and is
\* the divisor used; the charge is an integer from 0 to 100.
C11_EmotionalCharge ==
    EnReturned =>
        LET wc == en.wordCount
            e == en.emo
        IN  /\ wc >= 1
            /\ en.total = wc
            /\ e \in 0..100
            /\ \/ e = 100 /\ ChargeTimes2 + wc >= 200 * wc
               \/ /\ e < 100
                  /\ ChargeTimes2 - wc < 2 * wc * e
                  /\ 2 * wc * e <= ChargeTimes2 + wc

\* A charge below the clamp that was rounded up from a quotient that is not
\* an integer.
C11_Witness ==
    /\ EnReturned
    /\ HighHits >= 1
    /\ en.emo \in 1..99
    /\ 2 * en.wordCount * en.emo > ChargeTimes2

\* C12: the vague count and the specific count are the numbers of distinct
\* words of their lexicon that are a substring of the lowercased text, at
\* most the lexicon's size, and each match list holds exactly the counted
\* words, once each.
C12_DistinctSubstringCounts ==
    EnReturned =>
        LET lower == ToLowerCase(en.text)
        IN  /\ en.vague = Cardinality(WordsIn(lower, VAGUE_WORDS))
            /\ en.specific = Cardinality(WordsIn(lower, SPECIFIC_WORDS))
            /\ en.vague <= Len(VAGUE_WORDS)
            /\ en.specific <= Len(SPECIFIC_WORDS)
            /\ Range(en.vagueList) = WordsIn(lower, VAGUE_WORDS)
            /\ Range(en.specificList) = WordsIn(lower, SPECIFIC_WORDS)
            /\ Len(en.vagueList) = en.vague
            /\ Len(en.specificList) = en.specific

\* A text in which "values" occurs twice and "tax" only inside "taxes".
C12_Witness ==
    /\ EnReturned
    /\ en.vagueList = <<"values", "community">>
    /\ en.specificList = <<"tax">>
    /\ LET lower == ToLowerCase(en.text)
       IN  IndexOf(lower, "values", IndexOf(lower, "values", 0) + 1) # -1

\* The number of maximal runs of code units of s that are not whitespace.
RECURSIVE WordRuns(_, _)
WordRuns(s, inWord) ==
    IF s = "" THEN 0
    ELSE IF IsSpace(Head(s)) THEN WordRuns(Tail(s), FALSE)
    ELSE (IF inWord THEN 0 ELSE 1) + WordRuns(Tail(s), TRUE)

\* C13: wordCount is the number of maximal non-whitespace runs of the text,
\* or 1 when there is none; it is at least 1, the empty text has wordCount 1
\* and no vague or specific match, and the wordCount reported is the divisor
\* of the emotional charge.
C13_WordCount ==
    EnReturned =>
        /\ en.wordCount = Max(1, WordRuns(en.text, FALSE))
        /\ en.wordCount >= 1
        /\ en.text = "" => en.wordCount = 1 /\ en.vague = 0 /\ en.specific = 0
        /\ en.total = en.wordCount

-----------------------------------------------------------------------------
(* highlightWords without a match.                                         *)

HlCalled == hl.status # "none"

\* The trigger list of the call's tag is missing or empty, the text is
\* empty, or no trigger of the tag occurs in the text.
HlNothingToMark ==
    \/ hl.tag \notin DOMAIN TILT_TRIGGERS
    \/ TILT_TRIGGERS[hl.tag] = <<>>
    \/ hl.text = ""
    \/ Occurrences(hl.text, hl.tag) = {}

\* C14: a call with a tag that is not in the trigger table or has no
\* trigger, with the empty text, or with a text in which no trigger occurs
\* raises no error and returns the whole text as one segment that is not
\* highlighted.
C14_NoMatchOneSegment ==
    (HlCalled /\ HlNothingToMark) =>
        /\ hl.status = "returned"
        /\ Len(hl.segs) = 1
        /\ ~hl.segs[1].mark
        /\ hl.segs[1].raw = hl.text

-----------------------------------------------------------------------------
(* The tilt rows of render.                                                *)

\* The tilt list as render reads it.
DataTilt ==
    IF argData.tilt_taxonomy.present THEN argData.tilt_taxonomy.items ELSE <<>>

\* C15: render shows one tilt row per entry of tilt_taxonomy, in the order
\* of the entries; the row of a tag of the definition table has the table's
\* label and description, the row of any other tag has the tag with its
\* underscores replaced by blanks as label and an empty description.
C15_TiltRows ==
    Rendered =>
        /\ Len(view.tiltRows) = Len(DataTilt)
        /\ \A k \in 1..Len(DataTilt) :
              LET t == DataTilt[k]
                  row == view.tiltRows[k]
              IN  /\ row.tag = t
                  /\ t \in DOMAIN TILT_DEFS =>
                        /\ row.label = TILT_DEFS[t].label
                        /\ row.short = TILT_DEFS[t].short
                  /\ t \notin DOMAIN TILT_DEFS =>
                        /\ row.label = Humanize(t)
                        /\ row.short = ""

-----------------------------------------------------------------------------
(* Rendered instances in the document, and the tilt clicks.                *)
(*                                                                         *)
(* An instance is the element render returns, once renderInline has put it *)
(* into a container: its data-uid and data-original-text, its tilt rows    *)
(* (data-tilt and whether the row has the class nti-tilt-active), and the  *)
(* source panel with the ids uid_source (style.display), uid_tiltname      *)
(* (textContent) and uid_body (innerHTML).                                 *)

\* Whether render(data, ...) raises: the st of an entry is undefined.
RenderRaises(data) ==
    LET fm == IF data.parent_failure_modes.present
              THEN data.parent_failure_modes ELSE MissingFm
    IN  \E k \in 1..Len(FM_CODES) : FilterRaises(fm, FM_CODES[k])

\* The element render(data, originalText) returns, as a part of the
\* document: the tilt rows without the class nti-tilt-active, the source
\* panel hidden and empty, dataset.originalText and dataset.uid.
InstanceOf(data, originalText, random) ==
    [present |-> TRUE, uid |-> uidOf(random),
     originalText |-> OrStr(originalText, ""),
     rows |-> [k \in 1..ListLength(data.tilt_taxonomy) |->
                 [tag |-> TiltRowsOf(data.tilt_taxonomy)[k].tag, active |-> FALSE]],
     display |-> "none", name |-> "", body |-> ""]

\* renderInline(data, originalText, containerId): the container is emptied,
\* and filled with the element render returns unless render raises.
renderInline(pg, c, data, originalText, random) ==
    [pg EXCEPT ![c] = IF RenderRaises(data) THEN NoInstance
                      ELSE InstanceOf(data, originalText, random)]

\* document.getElementById(uid + '_source') and its two siblings: the ids
\* of the first instance in document order that was rendered with this uid.
PanelOf(pg, uid) ==
    CHOOSE c \in 1..Len(Containers) :
        /\ pg[c].present /\ pg[c].uid = uid
        /\ \A d \in 1..(c - 1) : ~(pg[d].present /\ pg[d].uid = uid)

\* (TILT_DEFS[tiltTag] || {label: tiltTag}).label, as textContent keeps it:
\* an inherited property has no label, and textContent = undefined leaves
\* the element empty.
TiltNameOf(tiltTag) ==
    IF tiltTag \in DOMAIN TILT_DEFS THEN TILT_DEFS[tiltTag].label
    ELSE IF tiltTag \in InheritedNames THEN ""
    ELSE tiltTag

\* Whether _tiltClick on row k of container c takes the early return that
\* hides the panel.
ClickHides(pg, c, k) ==
    pg[PanelOf(pg, pg[c].uid)].display # "none" /\ pg[c].rows[k].active

\* The highlightWords call of _tiltClick on row k of container c.
ClickHighlight(pg, c, k) == highlightWords(pg[c].originalText, pg[c].rows[k].tag)

\* _tiltClick(el), el row k of the instance in container c: the document
\* after the call.  When highlightWords raises, the rows and the name have
\* been set and the body and the display are left as they were.
_tiltClick(pg, c, k) ==
    LET panel == PanelOf(pg, pg[c].uid)
    IN  IF ClickHides(pg, c, k)
        THEN [[pg EXCEPT ![panel].display = "none"]
                  EXCEPT ![c].rows[k].active = FALSE]
        ELSE LET cleared == [pg EXCEPT ![c].rows =
                                [j \in 1..Len(pg[c].rows) |->
                                    [pg[c].rows[j] EXCEPT !.active = (j = k)]]]
                 named == [cleared EXCEPT
                              ![panel].name = TiltNameOf(pg[c].rows[k].tag)]
                 call == ClickHighlight(pg, c, k)
             IN  IF call.status = "raised" THEN named
                 ELSE [[named EXCEPT ![panel].body = OutputHtml(call.segs)]
                           EXCEPT ![panel].display = "block"]

-----------------------------------------------------------------------------
(* Inputs of the page, and the specification of renders and clicks.        *)

\* Texts of the instances: a trigger of one tag, a trigger of another and
\* markup; one trigger.
PageTexts == {"Act now, guaranteed <b>", "momentum"}

\* Result objects of the instances: tilt rows of two table tags; a table
\* tag and a name Object.prototype defines; an entry without a state, on
\* which render raises.
PageDatas ==
    { [CleanData EXCEPT !.tilt_taxonomy =
          ListOf(<<"T2_CERTAINTY_INFLATION", "T8_PRESSURE_OPTIMIZATION">>)],
      [CleanData EXCEPT !.tilt_taxonomy =
          ListOf(<<"T8_PRESSURE_OPTIMIZATION", "constructor">>)],
      [BareData EXCEPT !.parent_failure_modes =
          [MissingFm EXCEPT !.present = TRUE, !.UDDS = EmptyEntry]] }

InitPage ==
    /\ argText = ""
    /\ argData = NoData
    /\ hl = NoCall
    /\ view = NoView
    /\ en = NoCall
    /\ page = NoPage
    /\ log = <<>>
    /\ analytics = NoAnalytics
    /\ engine = NoEngine
    /\ shell = NoShell

\* What a call renderInline(data, originalText, containerId) for a
\* container of the document does to the document.
RenderInlineDom(c, data, originalText, random) ==
    /\ page' = renderInline(page, c, data, originalText, random)
    /\ UNCHANGED <<argText, argData, hl, view, en, analytics, engine, shell>>

\* What a click on row k of the instance in container c does to the
\* document.
TiltClickDom(c, k) ==
    /\ page[c].present
    /\ k \in 1..Len(page[c].rows)
    /\ page' = _tiltClick(page, c, k)
    /\ UNCHANGED <<argText, argData, hl, view, en, analytics, engine, shell>>

RenderInline(c, data, originalText, random) ==
    RenderInlineDom(c, data, originalText, random) /\ UNCHANGED log

TiltClick(c, k) == TiltClickDom(c, k) /\ UNCHANGED log

NextPage ==
    \/ \E c \in 1..Len(Containers), data \in PageDatas, originalText \in PageTexts,
          random \in Randoms : RenderInline(c, data, originalText, random)
    \/ \E c \in 1..Len(Containers) : \E k \in 1..Len(page[c].rows) : TiltClick(c, k)

SpecPage == InitPage /\ [][NextPage]_vars

-----------------------------------------------------------------------------
(* Properties of the tilt clicks.                                          *)

\* What highlightWords returns for the text of the instance in container c
\* and the tag of its row k.
HighlightedFor(c, k) == OutputHtml(ClickHighlight(page, c, k).segs)

\* The effect C17 gives a click on row k of the instance in container c.
ClickEffect(c, k) ==
    IF page[c].rows[k].active /\ page[c].display # "none"
    THEN /\ page'[c].display = "none"
         /\ ~page'[c].rows[k].active
    ELSE /\ page'[c].rows[k].active
         /\ \A j \in 1..Len(page'[c].rows) : j # k => ~page'[c].rows[j].active
         /\ page'[c].display = "block"
         /\ page'[c].body = HighlightedFor(c, k)

\* C17: in an instance, a click on the active row while the source panel
\* is shown hides the panel and deactivates the row; a click on any other
\* row makes it the only active row and shows the source panel with the
\* instance's original text highlighted for the row's tag.
C17_ClickToggles ==
    [][\A c \in 1..Len(Containers) : \A k \in 1..Len(page[c].rows) :
            TiltClick(c, k) => ClickEffect(c, k)]_vars

\* C18: a click in one instance leaves every other instance as it was
\* (active rows, panel visibility, panel name and content), and a panel whose
\* content the click changes shows the clicked instance's own original text.
C18_InstancesIsolated ==
    [][\A c \in 1..Len(Containers) : \A k \in 1..Len(page[c].rows) :
            TiltClick(c, k) =>
                /\ \A d \in 1..Len(Containers) : d # c => page'[d] = page[d]
                /\ \A d \in 1..Len(Containers) :
                      page'[d].body # page[d].body =>
                          page'[d].body = HighlightedFor(c, k)]_vars

\* The active rows of the instance in container c.
ActiveTiltRows(c) == {k \in 1..Len(page[c].rows) : page[c].rows[k].active}

\* The source panel of the instance in container c shows the name and the
\* highlighted text of row k's tag.
PanelShowsRow(c, k) ==
    LET tiltTag == page[c].rows[k].tag
        call == highlightWords(page[c].originalText, tiltTag)
    IN  /\ call.status # "raised"
        /\ page[c].name = TiltNameOf(tiltTag)
        /\ page[c].body = OutputHtml(call.segs)

\* C25: in every rendered instance, at most one tilt row is active, the
\* source panel is visible exactly when one row is active, and then the
\* panel's title and highlighted body are those of the active row's tag.
C25_OneActiveRow ==
    \A c \in 1..Len(Containers) :
        page[c].present =>
            /\ Cardinality(ActiveTiltRows(c)) <= 1
            /\ page[c].display # "none" <=> Cardinality(ActiveTiltRows(c)) = 1
            /\ \A k \in ActiveTiltRows(c) : PanelShowsRow(c, k)

-----------------------------------------------------------------------------
(* Sequences of calls of render, enrichText and highlightWords, direct and *)
(* through renderInline and the tilt clicks, with the output of each.      *)

CallTexts == {"", "Act now<"}
CallTags == {"T8_PRESSURE_OPTIMIZATION", "T11_UNKNOWN"}
CallDatas ==
    { [CleanData EXCEPT !.tilt_taxonomy =
          ListOf(<<"T8_PRESSURE_OPTIMIZATION", "T11_UNKNOWN">>)] }

\* The entries of the log.
RenderCall(data, originalText, random) ==
    [fn |-> "render", args |-> [data |-> data, originalText |-> originalText],
     out |-> render(data, originalText, random)]

HighlightCall(text, tiltTag) ==
    [fn |-> "highlightWords", args |-> [text |-> text, tiltTag |-> tiltTag],
     out |-> highlightWords(text, tiltTag)]

EnrichCall(text) ==
    [fn |-> "enrichText", args |-> [text |-> text], out |-> enrichText(text)]

\* A call render(data, originalText).
CallRender(data, originalText, random) ==
    /\ Len(log) < MaxCalls
    /\ view' = render(data, originalText, random)
    /\ log' = Append(log, RenderCall(data, originalText, random))
    /\ UNCHANGED <<argText, argData, hl, en, page, analytics, engine, shell>>

\* A call highlightWords(text, tiltTag).
CallHighlight(text, tiltTag) ==
    /\ Len(log) < MaxCalls
    /\ hl' = highlightWords(text, tiltTag)
    /\ log' = Append(log, HighlightCall(text, tiltTag))
    /\ UNCHANGED <<argText, argData, view, en, page, analytics, engine, shell>>

\* A call enrichText(text).
CallEnrich(text) ==
    /\ Len(log) < MaxCalls
    /\ en' = enrichText(text)
    /\ log' = Append(log, EnrichCall(text))
    /\ UNCHANGED <<argText, argData, hl, view, page, analytics, engine, shell>>

\* renderInline, which calls render.
CallRenderInline(c, data, originalText, random) ==
    /\ Len(log) < MaxCalls
    /\ RenderInlineDom(c, data, originalText, random)
    /\ log' = Append(log, RenderCall(data, originalText, random))

\* A tilt click, which calls highlightWords unless it hides the panel.
CallTiltClick(c, k) ==
    /\ Len(log) < MaxCalls
    /\ TiltClickDom(c, k)
    /\ log' = IF ClickHides(page, c, k) THEN log
              ELSE Append(log, HighlightCall(page[c].originalText,
                                             page[c].rows[k].tag))

NextCalls ==
    \/ \E data \in CallDatas, originalText \in CallTexts, random \in Randoms :
          CallRender(data, originalText, random)
    \/ \E text \in CallTexts, tiltTag \in CallTags : CallHighlight(text, tiltTag)
    \/ \E text \in CallTexts : CallEnrich(text)
    \/ \E c \in 1..Len(Containers), data \in CallDatas, originalText \in CallTexts,
          random \in Randoms : CallRenderInline(c, data, originalText, random)
    \/ \E c \in 1..Len(Containers) : \E k \in 1..Len(page[c].rows) : CallTiltClick(c, k)

SpecCalls == InitPage /\ [][NextCalls]_vars

\* C16: any two calls of render, of enrichText or of highlightWords that
\* were made with the same arguments, whatever was called between them,
\* returned the same output.  (The lexicons, the trigger table and the tilt
\* definition table are definitions of this module: no action can change
\* them.)
C16_OutputByArguments ==
    \A i, j \in 1..Len(log) :
        (log[i].fn = log[j].fn /\ log[i].args = log[j].args) =>
            log[i].out = log[j].out

-----------------------------------------------------------------------------
(* highlightWords and markup characters.                                   *)

MarkupChars == {"&", "<", ">"}

\* The text with every markup character replaced by an ordinary character
\* that is in no trigger.
RECURSIVE Neutralized(_)
Neutralized(s) ==
    IF s = "" THEN ""
    ELSE (IF Head(s) \in MarkupChars THEN "#" ELSE Head(s)) \o Neutralized(Tail(s))

StartsWith(s, p) == Len(s) >= Len(p) /\ SubSeq(s, 1, Len(p)) = p

\* The text an HTML parser reads from h: each character reference of a
\* markup character is read once.
RECURSIVE Decoded(_)
Decoded(h) ==
    IF h = "" THEN ""
    ELSE IF StartsWith(h, "&amp;") THEN "&" \o Decoded(SubSeq(h, 6, Len(h)))
    ELSE IF StartsWith(h, "&lt;") THEN "<" \o Decoded(SubSeq(h, 5, Len(h)))
    ELSE IF StartsWith(h, "&gt;") THEN ">" \o Decoded(SubSeq(h, 5, Len(h)))
    ELSE Head(h) \o Decoded(Tail(h))

\* h holds no markup character but the & of a character reference.
RECURSIVE NoBareMarkup(_)
NoBareMarkup(h) ==
    IF h = "" THEN TRUE
    ELSE IF StartsWith(h, "&amp;") THEN NoBareMarkup(SubSeq(h, 6, Len(h)))
    ELSE IF StartsWith(h, "&lt;") \/ StartsWith(h, "&gt;")
    THEN NoBareMarkup(SubSeq(h, 5, Len(h)))
    ELSE Head(h) \notin MarkupChars /\ NoBareMarkup(Tail(h))

\* The lengths and the kinds of the segments, in order: which offsets of the
\* text are highlighted.
Layout(segs) ==
    [k \in 1..Len(segs) |-> [length |-> Len(segs[k].raw), mark |-> segs[k].mark]]

\* C19: the offsets highlighted in a text are those highlighted in the same
\* text with its markup characters replaced by ordinary ones, and the output
\* of every segment holds each markup character of the segment escaped
\* once: it has no bare markup character and reads back as the segment.
C19_EscapedAfterMatching ==
    HlReturned =>
        /\ Layout(hl.segs) = Layout(highlightWords(Neutralized(hl.text), hl.tag).segs)
        /\ \A k \in 1..Len(hl.segs) :
              /\ NoBareMarkup(hl.segs[k].html)
              /\ Decoded(hl.segs[k].html) = hl.segs[k].raw

\* A call that highlighted a trigger between markup characters.
C19_Witness ==
    /\ HlReturned
    /\ Len(hl.segs) = 3
    /\ hl.segs[2].mark
    /\ hl.segs[1].raw = "<&>"
    /\ hl.segs[3].raw = "<&>"
    /\ hl.segs[1].html = "&lt;&amp;&gt;"

-----------------------------------------------------------------------------
(* FrontendAnalytics: scroll depth and the event queue.                    *)
(*                                                                         *)
(* analytics holds the object's fields (the session's persona,             *)
(* conversionPath and interaction counters clicks, keystrokes and          *)
(* scrollDepth; eventQueue), the flushEvents calls that are awaiting a     *)
(* send (flushes), what the /events endpoint was handed (sent), and the    *)
(* window state the scroll listener reads: the scroll position             *)
(* (window.pageYOffset), the scrollable height                             *)
(* (documentElement.scrollHeight - window.innerHeight) and whether the     *)
(* listener's 200 ms timer is pending.  Lengths are in units of one        *)
(* twentieth (or one third) of the page, enough for every percentage that  *)
(* is a multiple of five and for positions that fall between milestones.   *)
(***************************************************************************)

\* The scrollable heights of the pages: a page that does not scroll, a page
\* whose positions are 0, 33, 67 and 100 percent, and a page whose positions
\* are the multiples of five percent.
ScrollHeights == {0, 3, 20}

\* The array literal updateScrollDepth tests the percentage against.
ScrollMilestones == <<25, 50, 75, 90, 100>>

\* Math.round((scrollTop / scrollHeight) * 100) || 0: 0 / 0 is NaN, which
\* Math.round keeps and || replaces by 0.
scrollPercentOf(scrollTop, scrollHeight) ==
    IF scrollHeight = 0 THEN 0 ELSE RoundDiv(scrollTop * 100, scrollHeight)

\* The events whose data holds the session's conversionPath array
\* (conversionPath of investment_click, fullConversionPath of
\* conversion_complete).
PathEvents == {"investment_click", "conversion_complete"}

\* JSON.stringify(event), as flushEvents calls it: data.sessionInteractions is
\* the session's interactions object and the path of a PathEvents event is the
\* session's conversionPath array, so the text holds what these objects hold
\* when it is made.  seq numbers the events in the order they were tracked.
stringify(a, event) ==
    [seq |-> event.seq, event |-> event.event, data |-> event.data,
     sessionInteractions |-> [clicks |-> a.clicks, keystrokes |-> a.keystrokes,
                              scrollDepth |-> a.scrollDepth],
     conversionPath |-> IF event.event \in PathEvents THEN a.conversionPath ELSE <<>>]

\* trackEvent(eventName, eventData): push the event on the queue.  The
\* session id, user id and clock readings it adds to the data are left out.
\* tracked is the history of the calls: for each event, in order, what its
\* JSON text would have been at the moment it was tracked.
trackEvent(a, eventName, eventData) ==
    LET event == [event |-> eventName, seq |-> Len(a.tracked) + 1, data |-> eventData]
    IN  [a EXCEPT !.eventQueue = Append(@, event),
                  !.tracked = Append(@, stringify(a, event))]

\* updateScrollDepth().
updateScrollDepth(a) ==
    LET scrollPercent == scrollPercentOf(a.scrollTop, a.scrollHeight)
        deeper == [a EXCEPT !.scrollDepth = scrollPercent]
    IN  IF scrollPercent > a.scrollDepth
        THEN IF \E i \in 1..Len(ScrollMilestones) : ScrollMilestones[i] = scrollPercent
             THEN trackEvent(deeper, "scroll_milestone",
                             [scrollPercent |-> scrollPercent, persona |-> a.persona])
             ELSE deeper
        ELSE a

\* The object after its constructor ran on a page of the given height, at the
\* top: scrollDepth 0, no persona, and the page_load event of init() queued.
NewAnalytics(scrollHeight) ==
    trackEvent([status |-> "listening", scrollTop |-> 0, scrollHeight |-> scrollHeight,
                scrollTimeout |-> FALSE, scrollDepth |-> 0, persona |-> "null",
                clicks |-> 0, keystrokes |-> 0, conversionPath |-> <<>>,
                eventQueue |-> <<>>, tracked |-> <<>>, flushes |-> <<>>,
                sent |-> <<>>],
               "page_load", [url |-> "/"])

InitAnalytics ==
    /\ argText = ""
    /\ argData = NoData
    /\ hl = NoCall
    /\ view = NoView
    /\ en = NoCall
    /\ page = NoPage
    /\ log = <<>>
    /\ \E scrollHeight \in ScrollHeights : analytics = NewAnalytics(scrollHeight)
    /\ engine = NoEngine
    /\ shell = NoShell

\* The window scrolls to another position: the listener clears the pending
\* timer and sets a new one.
Scroll(scrollTop) ==
    /\ scrollTop \in 0..analytics.scrollHeight
    /\ scrollTop # analytics.scrollTop
    /\ analytics' = [analytics EXCEPT !.scrollTop = scrollTop, !.scrollTimeout = TRUE]
    /\ UNCHANGED <<argText, argData, hl, view, en, page, log, engine, shell>>

\* The timer fires, 200 ms after the last scroll event: updateScrollDepth().
ScrollTimeout ==
    /\ analytics.scrollTimeout
    /\ analytics' = [updateScrollDepth(analytics) EXCEPT !.scrollTimeout = FALSE]
    /\ UNCHANGED <<argText, argData, hl, view, en, page, log, engine, shell>>

NextAnalytics ==
    \/ \E scrollTop \in 0..analytics.scrollHeight : Scroll(scrollTop)
    \/ ScrollTimeout

SpecAnalytics == InitAnalytics /\ [][NextAnalytics]_vars

-----------------------------------------------------------------------------
(* Scroll milestones.                                                      *)
(***************************************************************************)

\* The page depths the event list of the integration guide names.
DocumentedMilestones == {25, 50, 75, 100}

\* The scroll_milestone percentages a step adds to the queue.
MilestonesQueued ==
    {analytics'.eventQueue[i].data.scrollPercent :
        i \in {j \in (Len(analytics.eventQueue) + 1)..Len(analytics'.eventQueue) :
                  analytics'.eventQueue[j].event = "scroll_milestone"}}

\* The documented milestones the session's maximum scroll depth reaches or
\* passes in a step.
MilestonesPassed ==
    {m \in DocumentedMilestones :
        analytics.scrollDepth < m /\ m <= analytics'.scrollDepth}

\* C20: scroll_milestone events are queued for exactly the milestones 25, 50,
\* 75 and 100: every step in which the session's maximum scroll depth reaches
\* or passes one of them queues a scroll_milestone event for each milestone
\* reached or passed, and queues no scroll_milestone event for any other depth.
C20_ScrollMilestones == [][MilestonesQueued = MilestonesPassed]_vars

-----------------------------------------------------------------------------
(* FrontendAnalytics: tracking and flushing.                               *)
(*                                                                         *)
(* A flushEvents call that is awaiting a fetch is a record of flushes: the *)
(* batch it took from the queue (events), the position in the batch of     *)
(* the event whose request is in flight (next) and the body of that        *)
(* request.  A fetch that resolves hands its body to the endpoint; a fetch *)
(* that rejects hands it nothing.                                          *)
(***************************************************************************)

\* The number of events tracked in a session, the page_load event included.
MaxTracked == 3

\* The number of flushEvents calls awaiting a send at the same time.
MaxFlushes == 2

\* The number of requests the endpoint receives in a session.
MaxSent == 4

\* The elements of the page a click lands on: a plain element and an
\* investment button (.action-btn).
ClickTargets == {"div", "action-btn"}

RemoveAt(seq, i) == SubSeq(seq, 1, i - 1) \o SubSeq(seq, i + 1, Len(seq))

\* trackInvestmentClick(amount, clickData).
trackInvestmentClick(a, amount) ==
    trackEvent([a EXCEPT !.conversionPath = Append(@, "investment_click")],
               "investment_click", [amount |-> amount])

\* handleClick(event), for a click on the given element.
handleClick(a, target) ==
    LET counted == [a EXCEPT !.clicks = @ + 1]
    IN  IF target = "action-btn"
        THEN trackInvestmentClick(counted, "5K")
        ELSE trackEvent(counted, "click", [tagName |-> target])

\* handleInput(event).
handleInput(a) ==
    trackEvent([a EXCEPT !.keystrokes = @ + 1], "text_input", [elementId |-> "in-prompt"])

\* flushEvents(), up to its first await: take the queue as the batch, empty
\* the queue and issue the request for the first event.
flushStarted(a) ==
    [a EXCEPT !.eventQueue = <<>>,
              !.flushes = Append(@, [events |-> a.eventQueue, next |-> 1,
                                     body |-> stringify(a, a.eventQueue[1])])]

\* flushEvents(true) with navigator.sendBeacon: every event of the queue is
\* handed to the endpoint at once.
flushedByBeacon(a) ==
    [a EXCEPT !.eventQueue = <<>>,
              !.sent = @ \o [i \in 1..Len(a.eventQueue) |-> stringify(a, a.eventQueue[i])]]

\* flushEvents() resumed by a fetch that resolved: the request reached the
\* endpoint; issue the request for the next event of the batch, or return.
fetchResolved(a, f) ==
    LET flush == a.flushes[f]
        handed == [a EXCEPT !.sent = Append(@, flush.body)]
    IN  IF flush.next = Len(flush.events)
        THEN [handed EXCEPT !.flushes = RemoveAt(@, f)]
        ELSE [handed EXCEPT !.flushes[f] =
                 [events |-> flush.events, next |-> flush.next + 1,
                  body |-> stringify(a, flush.events[flush.next + 1])]]

\* flushEvents() resumed by a fetch that rejected, with a catch block that
\* drops the batch.
fetchRejected_Dropped(a, f) ==
    [a EXCEPT !.flushes = RemoveAt(@, f)]

\* flushEvents() resumed by a fetch that rejected: the catch block puts the
\* whole batch back at the front of the queue.
fetchRejected(a, f) ==
    [a EXCEPT !.eventQueue = a.flushes[f].events \o @,
              !.flushes = RemoveAt(@, f)]

InitFlush ==
    /\ argText = ""
    /\ argData = NoData
    /\ hl = NoCall
    /\ view = NoView
    /\ en = NoCall
    /\ page = NoPage
    /\ log = <<>>
    /\ analytics = NewAnalytics(0)
    /\ engine = NoEngine
    /\ shell = NoShell

\* A click on an element of the page.
Click(target) ==
    /\ Len(analytics.tracked) < MaxTracked
    /\ analytics' = handleClick(analytics, target)
    /\ UNCHANGED <<argText, argData, hl, view, en, page, log, engine, shell>>

\* An input event in a text area.
Input ==
    /\ Len(analytics.tracked) < MaxTracked
    /\ analytics' = handleInput(analytics)
    /\ UNCHANGED <<argText, argData, hl, view, en, page, log, engine, shell>>

\* The 10 s interval fires and the queue is not empty.
FlushStart ==
    /\ Len(analytics.eventQueue) > 0
    /\ Len(analytics.flushes) < MaxFlushes
    /\ analytics' = flushStarted(analytics)
    /\ UNCHANGED <<argText, argData, hl, view, en, page, log, engine, shell>>

\* beforeunload fires (and the page stays) and the queue is not empty.
FlushImmediate ==
    /\ Len(analytics.eventQueue) > 0
    /\ Len(analytics.sent) + Len(analytics.eventQueue) <= MaxSent
    /\ analytics' = flushedByBeacon(analytics)
    /\ UNCHANGED <<argText, argData, hl, view, en, page, log, engine, shell>>

\* The request in flight of a flush reaches the endpoint.
FetchResolves(f) ==
    /\ f \in 1..Len(analytics.flushes)
    /\ Len(analytics.sent) < MaxSent
    /\ analytics' = fetchResolved(analytics, f)
    /\ UNCHANGED <<argText, argData, hl, view, en, page, log, engine, shell>>

\* The request in flight of a flush fails.
FetchRejects(f) ==
    /\ f \in 1..Len(analytics.flushes)
    /\ analytics' = fetchRejected(analytics, f)
    /\ UNCHANGED <<argText, argData, hl, view, en, page, log, engine, shell>>

NextFlush ==
    \/ \E target \in ClickTargets : Click(target)
    \/ Input
    \/ FlushStart
    \/ FlushImmediate
    \/ \E f \in 1..MaxFlushes : FetchResolves(f)
    \/ \E f \in 1..MaxFlushes : FetchRejects(f)

SpecFlush == InitFlush /\ [][NextFlush]_vars

-----------------------------------------------------------------------------
(* Events are neither lost nor sent twice, and are sent as tracked.        *)
(***************************************************************************)

SeqsOf(events) == {events[i].seq : i \in 1..Len(events)}

\* The events the endpoint was handed, and those in the queue.
SentSeqs == SeqsOf(analytics.sent)
QueuedSeqs == SeqsOf(analytics.eventQueue)

\* The events in the batch of a flushEvents call that has not returned.
BatchSeqs ==
    UNION {SeqsOf(analytics.flushes[f].events) : f \in 1..Len(analytics.flushes)}

Flushing == analytics.status = "listening"

C26_SentOnce ==
    Flushing =>
        \A i, j \in 1..Len(analytics.sent) :
            analytics.sent[i].seq = analytics.sent[j].seq => i = j

\* C29: every event handed to the endpoint carries the interaction counters
\* and, for investment_click and conversion_complete, the conversion path as
\* they were when the event was tracked.
C29_SentAsTracked ==
    Flushing =>
        \A i \in 1..Len(analytics.sent) :
            analytics.sent[i] = analytics.tracked[analytics.sent[i].seq]

-----------------------------------------------------------------------------
(* nti-engine.js: the API calls score and rewrite.                         *)
(*                                                                         *)
(* A reply is what the network does with one request: fetch rejects, or    *)
(* fetch resolves and r.json() rejects, or r.json() resolves with the      *)
(* parsed value.  A parsed value or a value the code builds is a record:   *)
(* whether it is null, its error field and its nii_score field (UNDEF for  *)
(* a field the object does not have).  A promise is a record of its state  *)
(* and its value.                                                          *)
(***************************************************************************)

\* Everything outside the widgets of nti-engine.js.
nonEngine == <<argText, argData, hl, view, en, page, log, analytics, shell>>

JsObject(error, nii_score) == [isNull |-> FALSE, error |-> error, nii_score |-> nii_score]
JsNull == [isNull |-> TRUE, error |-> UNDEF, nii_score |-> UNDEF]

\* The values a response body parses to: two results, an error object of the
\* server, and null.
ParsedValues ==
    {JsObject(UNDEF, "0.85"), JsObject(UNDEF, "0.4"), JsObject("rate limited", UNDEF), JsNull}

Replies ==
    {[fetch |-> "rejects", json |-> "none", message |-> "Failed to fetch", value |-> JsNull],
     [fetch |-> "resolves", json |-> "rejects", message |-> "Unexpected token <",
      value |-> JsNull]}
    \cup {[fetch |-> "resolves", json |-> "resolves", message |-> "", value |-> v] :
             v \in ParsedValues}

Fulfilled(value) == [state |-> "fulfilled", value |-> value]
Rejected(message) == [state |-> "rejected", value |-> JsObject(message, UNDEF)]
NoPromise == [state |-> "none", value |-> JsNull]

\* The body of the request of score(text, options): prior_ai and objective
\* are set from the truthy options.
scoreBody(text, options) ==
    [text |-> text,
     prior_ai |-> IF TruthyStr(options.prior) THEN options.prior ELSE UNDEF,
     objective |-> IF TruthyStr(options.objective) THEN options.objective ELSE UNDEF]

\* The body of the request of rewrite(text).
rewriteBody(text) == [text |-> text, prior_ai |-> UNDEF, objective |-> UNDEF]

\* try { r = await fetch(...); return await r.json() }, without the
\* catch block.
request_NoCatch(reply) ==
    IF reply.fetch = "rejects" \/ reply.json = "rejects"
    THEN Rejected(reply.message)
    ELSE Fulfilled(reply.value)

\* try { r = await fetch(...); return await r.json() }
\* catch (e) { return { error: e.message } }: the promise of the async
\* function, given the reply to its request.
request(reply) ==
    IF reply.fetch = "rejects" \/ reply.json = "rejects"
    THEN Fulfilled(JsObject(reply.message, UNDEF))
    ELSE Fulfilled(reply.value)

\* score(text, options), options an object: the promise it returns.
score(text, options, reply) == request(reply)

\* rewrite(text): the promise it returns.
rewrite(text, reply) == request(reply)

-----------------------------------------------------------------------------
(* Calls of score and rewrite.                                             *)
(***************************************************************************)

ApiTexts == {"", "Act now", "momentum"}

\* The options of score: none (the default {}), a prior, an objective.
ApiOptions ==
    {[prior |-> UNDEF, objective |-> UNDEF], [prior |-> "hello", objective |-> UNDEF],
     [prior |-> "", objective |-> "sell"]}

NoBody == [text |-> UNDEF, prior_ai |-> UNDEF, objective |-> UNDEF]

InitApi ==
    /\ argText = ""
    /\ argData = NoData
    /\ hl = NoCall
    /\ view = NoView
    /\ en = NoCall
    /\ page = NoPage
    /\ log = <<>>
    /\ analytics = NoAnalytics
    /\ shell = NoShell
    /\ \E text \in ApiTexts, options \in ApiOptions, reply \in Replies :
          engine = [status |-> "api", text |-> text, options |-> options, reply |-> reply,
                    fn |-> "none", body |-> NoBody, promise |-> NoPromise]

\* await NTI.score(text, options), to the settling of the promise.
CallScore ==
    /\ engine' = [engine EXCEPT !.fn = "score",
                                !.body = scoreBody(engine.text, engine.options),
                                !.promise = score(engine.text, engine.options, engine.reply)]
    /\ UNCHANGED nonEngine

\* await NTI.rewrite(text), to the settling of the promise.
CallRewrite ==
    /\ engine' = [engine EXCEPT !.fn = "rewrite",
                                !.body = rewriteBody(engine.text),
                                !.promise = rewrite(engine.text, engine.reply)]
    /\ UNCHANGED nonEngine

NextApi == CallScore \/ CallRewrite

SpecApi == InitApi /\ [][NextApi]_vars

\* The request of the call failed: fetch rejected or r.json() rejected.
RequestFailed == engine.reply.fetch = "rejects" \/ engine.reply.json = "rejects"

\* C23: score and rewrite never reject: the promise of every call is
\* fulfilled, and when the network request or the parsing of the response
\* failed its value is an object with an error field.
C23_NeverRejects ==
    (engine.status = "api" /\ engine.fn # "none") =>
        /\ engine.promise.state = "fulfilled"
        /\ RequestFailed =>
              /\ ~engine.promise.value.isNull
              /\ engine.promise.value.error # UNDEF

\* A score call whose fetch rejected resolved to { error: 'Failed to fetch' }.
C23_Witness ==
    /\ engine.status = "api"
    /\ engine.fn = "score"
    /\ engine.reply.fetch = "rejects"
    /\ engine.promise = Fulfilled(JsObject("Failed to fetch", UNDEF))

-----------------------------------------------------------------------------
(* nti-engine.js: scoreBar.                                                *)
(*                                                                         *)
(* engine holds the textarea's value, the timers that are pending, the     *)
(* score requests in flight and the output element.  Time advances in      *)
(* ticks; a timer set by setTimeout(f, debounce) fires when DebounceTicks  *)
(* ticks have passed.  History, for the properties: clock is the number of *)
(* ticks since the last input event (up to DebounceTicks), inputs the      *)
(* number of input events, lastInput what the listener did at the last     *)
(* one, issued the requests made, and output.of the text of the request    *)
(* the output was written for.                                             *)
(***************************************************************************)

\* The ticks of the debounce interval (options.debounce || DEBOUNCE_MS).
DebounceTicks == 2

\* The number of input events of a session.
MaxInputs == 3

\* String.prototype.trim.
RECURSIVE TrimStart(_)
TrimStart(s) == IF s # "" /\ IsSpace(Head(s)) THEN TrimStart(Tail(s)) ELSE s

RECURSIVE TrimEnd(_)
TrimEnd(s) ==
    IF s # "" /\ IsSpace(SubSeq(s, Len(s), Len(s)))
    THEN TrimEnd(SubSeq(s, 1, Len(s) - 1)) ELSE s

Trim(s) == TrimEnd(TrimStart(s))

\* The values of the textarea after an input event.
BarValues == {"", " ", "Act now ", "momentum"}

\* renderBar(data): whether it raises (data is null), and the innerHTML it
\* gives the output: the error mark, or the score times 100 and its label
\* (the issue count and the latency are left out).
renderBarRaises(data) == data.isNull

renderBar(data) ==
    IF TruthyStr(data.error) THEN "Error"
    ELSE IF data.nii_score = "0.85" THEN "85 STRONG"
    ELSE IF data.nii_score = "0.4" THEN "40 WEAK"
    ELSE "0 WEAK"

NoOutput == [html |-> "", of |-> UNDEF]

\* The input listener without clearTimeout(timer).
onInput_NoClear(e, value) ==
    LET text == Trim(value)
        heard == [e EXCEPT !.value = value, !.clock = 0, !.inputs = @ + 1,
                           !.timers = [i \in 1..Len(e.timers) |->
                                          [e.timers[i] EXCEPT !.current = FALSE]]]
    IN  IF text = ""
        THEN [heard EXCEPT !.output = NoOutput,
                           !.lastInput = [text |-> text, html |-> "", scheduled |-> FALSE]]
        ELSE [heard EXCEPT !.timers = Append(@, [text |-> text, remaining |-> DebounceTicks,
                                                 current |-> TRUE]),
                           !.lastInput = [text |-> text, html |-> e.output.html,
                                          scheduled |-> TRUE]]

\* The input listener: clearTimeout(timer) removes the timer the variable
\* `timer` names (current), if it is still pending; an empty text clears the
\* output; any other text sets a timer that holds the text.
onInput(e, value) ==
    LET text == Trim(value)
        heard == [e EXCEPT !.value = value, !.clock = 0, !.inputs = @ + 1,
                           !.timers = SelectSeq(@, LAMBDA t : ~t.current)]
    IN  IF text = ""
        THEN [heard EXCEPT !.output = NoOutput,
                           !.lastInput = [text |-> text, html |-> "", scheduled |-> FALSE]]
        ELSE [heard EXCEPT !.timers = Append(@, [text |-> text, remaining |-> DebounceTicks,
                                                 current |-> TRUE]),
                           !.lastInput = [text |-> text, html |-> e.output.html,
                                          scheduled |-> TRUE]]

\* The timer callback, to its await: the output says scoring... and the
\* request of score(text) is made.
onTimer(e, i) ==
    [e EXCEPT !.timers = RemoveAt(@, i),
              !.output = [html |-> "scoring...", of |-> e.timers[i].text],
              !.requests = Append(@, [text |-> e.timers[i].text]),
              !.issued = Append(@, [text |-> e.timers[i].text, clock |-> e.clock,
                                    inputs |-> e.inputs, typed |-> Trim(e.value)])]

\* The timer callback after its await: renderBar(data), data the value of
\* score's promise for the reply.
onScored(e, r, reply) ==
    LET data == score(e.requests[r].text, [prior |-> UNDEF, objective |-> UNDEF],
                      reply).value
        done == [e EXCEPT !.requests = RemoveAt(@, r)]
    IN  IF renderBarRaises(data) THEN done
        ELSE [done EXCEPT !.output = [html |-> renderBar(data),
                                      of |-> e.requests[r].text]]

InitScoreBar ==
    /\ argText = ""
    /\ argData = NoData
    /\ hl = NoCall
    /\ view = NoView
    /\ en = NoCall
    /\ page = NoPage
    /\ log = <<>>
    /\ analytics = NoAnalytics
    /\ shell = NoShell
    /\ engine = [status |-> "scoreBar", value |-> "", timers |-> <<>>, requests |-> <<>>,
                 output |-> NoOutput, clock |-> DebounceTicks, inputs |-> 0,
                 lastInput |-> [text |-> "", html |-> "", scheduled |-> FALSE],
                 issued |-> <<>>]

\* An input event that leaves the textarea with the given value.
BarInput(value) ==
    /\ engine.inputs < MaxInputs
    /\ engine' = onInput(engine, value)
    /\ UNCHANGED nonEngine

\* A tick of time passes: no timer is due.
BarTick ==
    /\ engine.timers # <<>> \/ engine.clock < DebounceTicks
    /\ \A i \in 1..Len(engine.timers) : engine.timers[i].remaining > 0
    /\ engine' = [engine EXCEPT
                     !.clock = Min(@ + 1, DebounceTicks),
                     !.timers = [i \in 1..Len(engine.timers) |->
                                    [engine.timers[i] EXCEPT !.remaining = @ - 1]]]
    /\ UNCHANGED nonEngine

\* A timer that is due fires.
BarTimer(i) ==
    /\ i \in 1..Len(engine.timers)
    /\ engine.timers[i].remaining = 0
    /\ engine' = onTimer(engine, i)
    /\ UNCHANGED nonEngine

\* The request of a score call gets its reply.
BarScored(r, reply) ==
    /\ r \in 1..Len(engine.requests)
    /\ engine' = onScored(engine, r, reply)
    /\ UNCHANGED nonEngine

NextScoreBar ==
    \/ \E value \in BarValues : BarInput(value)
    \/ BarTick
    \/ \E i \in 1..MaxInputs : BarTimer(i)
    \/ \E r \in 1..MaxInputs, reply \in Replies : BarScored(r, reply)

SpecScoreBar == InitScoreBar /\ [][NextScoreBar]_vars

-----------------------------------------------------------------------------
(* Properties of scoreBar.                                                 *)
(***************************************************************************)

ScoreBarAttached == engine.status = "scoreBar"

\* C22: a score request is made only when the debounce interval has passed
\* since the last input event.  At most one timer is pending; every request
\* made was made DebounceTicks after the last input, for the trimmed text of
\* that input, and no two requests were made after the same input; an input
\* that left the textarea empty cleared the output and set no timer.
C22_DebouncedRequests ==
    ScoreBarAttached =>
        /\ Len(engine.timers) <= 1
        /\ \A i \in 1..Len(engine.issued) :
              /\ engine.issued[i].clock = DebounceTicks
              /\ engine.issued[i].text = engine.issued[i].typed
        /\ \A i, j \in 1..Len(engine.issued) :
              engine.issued[i].inputs = engine.issued[j].inputs => i = j
        /\ engine.lastInput.text = "" =>
              /\ engine.lastInput.html = ""
              /\ ~engine.lastInput.scheduled
        /\ (engine.inputs > 0 /\ Trim(engine.value) = "") => engine.timers = <<>>

\* Three inputs in a burst, then a pause: one request, for the last text.
C22_Witness ==
    /\ ScoreBarAttached
    /\ engine.inputs = 3
    /\ Len(engine.issued) = 1
    /\ engine.issued[1].text = "Act now"
    /\ engine.issued[1].inputs = 3

\* Input has stopped and every score request has resolved.
BarQuiet == engine.timers = <<>> /\ engine.requests = <<>>

\* C27: once input has stopped and every outstanding request has resolved,
\* the output is empty if the textarea's content is empty and is otherwise
\* the output written for the textarea's latest content.
C27_LatestResultShown ==
    (ScoreBarAttached /\ engine.inputs > 0 /\ BarQuiet) =>
        IF Trim(engine.value) = "" THEN engine.output = NoOutput
        ELSE engine.output.of = Trim(engine.value)

-----------------------------------------------------------------------------
(* nti-engine.js: the buttons of mount and rewriteButton.                  *)
(*                                                                         *)
(* engine holds the widget mount builds: the textarea's value, the score   *)
(* button and the bar it writes, the rewrite button (hidden until the      *)
(* first score) with its label and its output, and the click handlers      *)
(* that are awaiting: scoreCalls, and rewriteCalls with the await each is  *)
(* at (the 300 ms pause, or the request).  The model name pickModel gives  *)
(* the label is left out.                                                  *)
(***************************************************************************)

\* The values the user gives the textarea.
WidgetValues == {" ", "Act now ", "momentum"}

\* The score click handler, to its await.
onScoreClick(e) ==
    LET text == Trim(e.value)
    IN  IF text = "" THEN e
        ELSE [e EXCEPT !.scoreDisabled = TRUE, !.bar = "scoring...",
                       !.scoreCalls = Append(@, [text |-> text])]

\* (nii * 100).toFixed(0) for nii = data.score?.nii_score ?? data.nii_score ?? 0.
niiPercent(data) ==
    IF data.nii_score = "0.85" THEN "85" ELSE IF data.nii_score = "0.4" THEN "40" ELSE "0"

\* The score click handler after its await: the button is enabled and the
\* rewrite button shown, then the bar is written (data.score raises for null).
onScoreReplied(e, c, reply) ==
    LET data == score(e.scoreCalls[c].text, [prior |-> UNDEF, objective |-> UNDEF],
                      reply).value
        enabled == [e EXCEPT !.scoreCalls = RemoveAt(@, c), !.scoreDisabled = FALSE,
                             !.rewriteShown = TRUE]
    IN  IF data.isNull THEN enabled ELSE [enabled EXCEPT !.bar = niiPercent(data)]

\* The rewrite click handler, to its first await.
onRewriteClick(e) ==
    LET text == Trim(e.value)
    IN  IF text = "" THEN e
        ELSE [e EXCEPT !.rewriteDisabled = TRUE, !.rewriteLabel = "SELECTING MODEL...",
                       !.rewriteCalls = Append(@, [text |-> text, at |-> "pause"])]

\* The rewrite click handler after the 300 ms pause, to its second await.
onRewritePaused(e, c) ==
    [e EXCEPT !.rewriteLabel = "rewriting...", !.rewriteCalls[c].at = "request"]

\* The rewrite click handler after its second await: data.error raises for
\* null; an error is shown on the button, which is enabled; a rewrite is
\* shown in the output and the label says so.
onRewriteReplied(e, c, reply) ==
    LET data == rewrite(e.rewriteCalls[c].text, reply).value
        returned == [e EXCEPT !.rewriteCalls = RemoveAt(@, c)]
    IN  IF data.isNull THEN returned
        ELSE IF TruthyStr(data.error)
        THEN [returned EXCEPT !.rewriteLabel = data.error, !.rewriteDisabled = FALSE]
        ELSE [returned EXCEPT !.rewriteOut = "V3 STRUCTURAL REWRITE",
                              !.rewriteLabel = "Rewritten"]

InitMount ==
    /\ argText = ""
    /\ argData = NoData
    /\ hl = NoCall
    /\ view = NoView
    /\ en = NoCall
    /\ page = NoPage
    /\ log = <<>>
    /\ analytics = NoAnalytics
    /\ shell = NoShell
    /\ engine = [status |-> "mount", value |-> "",
                 scoreDisabled |-> FALSE, scoreCalls |-> <<>>, bar |-> "",
                 rewriteShown |-> FALSE, rewriteDisabled |-> FALSE,
                 rewriteCalls |-> <<>>, rewriteLabel |-> "Rewrite", rewriteOut |-> ""]

\* The user edits the textarea.
WidgetInput(value) ==
    /\ engine' = [engine EXCEPT !.value = value]
    /\ UNCHANGED nonEngine

\* A click on the score button, which a disabled button does not get.
ScoreClick ==
    /\ ~engine.scoreDisabled
    /\ engine' = onScoreClick(engine)
    /\ UNCHANGED nonEngine

ScoreReplied(c, reply) ==
    /\ c \in 1..Len(engine.scoreCalls)
    /\ engine' = onScoreReplied(engine, c, reply)
    /\ UNCHANGED nonEngine

\* A click on the rewrite button, which a hidden or disabled button does
\* not get.
RewriteClick ==
    /\ engine.rewriteShown
    /\ ~engine.rewriteDisabled
    /\ engine' = onRewriteClick(engine)
    /\ UNCHANGED nonEngine

RewritePaused(c) ==
    /\ c \in 1..Len(engine.rewriteCalls)
    /\ engine.rewriteCalls[c].at = "pause"
    /\ engine' = onRewritePaused(engine, c)
    /\ UNCHANGED nonEngine

RewriteReplied(c, reply) ==
    /\ c \in 1..Len(engine.rewriteCalls)
    /\ engine.rewriteCalls[c].at = "request"
    /\ engine' = onRewriteReplied(engine, c, reply)
    /\ UNCHANGED nonEngine

NextMount ==
    \/ \E value \in WidgetValues : WidgetInput(value)
    \/ ScoreClick
    \/ \E c \in 1..Len(engine.scoreCalls), reply \in Replies : ScoreReplied(c, reply)
    \/ RewriteClick
    \/ \E c \in 1..Len(engine.rewriteCalls) : RewritePaused(c)
    \/ \E c \in 1..Len(engine.rewriteCalls), reply \in Replies : RewriteReplied(c, reply)

SpecMount == InitMount /\ [][NextMount]_vars

\* C28: each request button is disabled exactly while its request is in
\* flight: a button whose handler is awaiting is disabled, a button with no
\* handler awaiting is enabled, and no button has two handlers awaiting.
C28_ButtonsReenabled ==
    engine.status = "mount" =>
        /\ Len(engine.scoreCalls) <= 1
        /\ Len(engine.rewriteCalls) <= 1
        /\ engine.scoreDisabled <=> engine.scoreCalls # <<>>
        /\ engine.rewriteDisabled <=> engine.rewriteCalls # <<>>

-----------------------------------------------------------------------------
(* az-shell.js: the injected header and footer.                            *)
(*                                                                         *)
(* shell holds the document: the number of style elements with the id      *)
(* az-shell-styles in the head, and the children of the body in order.  A  *)
(* node is a record of its class attribute and its children; id numbers    *)
(* the nodes of the page as it was served (0 for a node a script made).    *)
(* The nodes of a served page have no children and none of the classes the *)
(* shell gives its own elements.  History: original is the served body,    *)
(* inits the number of times init ran.                                     *)
(***************************************************************************)

\* The number of nodes in the body of a served page.
MaxNodes == 3

\* The number of times the script is executed on a page.
MaxRuns == 2

Node(class, children) == [id |-> 0, class |-> class, children |-> children]

\* The class attributes of the nodes of the served pages.
PageClasses == {"hero", "topbar", "footer", "nav"}

\* The element matches one of the selectors of removeExisting and has neither
\* the class az-topbar nor the class az-footer.
Removable(class) ==
    /\ \/ class \in {"topbar", "nav", "header-bar", "footer"}
       \/ Includes(class, "topbar")
    /\ class \notin {"az-topbar", "az-footer"}

\* removeExisting(): the body without the elements it removes, among the
\* children of the body and among their children.
removeExisting(body) ==
    LET kept(nodes) == SelectSeq(nodes, LAMBDA n : ~Removable(n.class))
        top == kept(body)
    IN  [i \in 1..Len(top) |-> [top[i] EXCEPT !.children = kept(@)]]

\* document.querySelector('.' + class) finds an element.
HasClass(body, class) ==
    \E i \in 1..Len(body) :
        \/ body[i].class = class
        \/ \E j \in 1..Len(body[i].children) : body[i].children[j].class = class

\* The position among the children of the body of the first element with the
\* class, 0 when no child of the body has it.
ChildWith(body, class) ==
    IF \E i \in 1..Len(body) : body[i].class = class
    THEN CHOOSE i \in 1..Len(body) :
             body[i].class = class /\ \A j \in 1..(i - 1) : body[j].class # class
    ELSE 0

\* buildTopbar(): the bar becomes the first child of the body.
buildTopbar(body) ==
    IF HasClass(body, "az-topbar") THEN body
    ELSE <<Node("az-topbar", <<>>)>> \o body

\* buildFooter() without the test for an existing footer.
buildFooter_NoGuard(body) == Append(body, Node("az-footer", <<>>))

\* buildFooter(): the footer becomes the last child of the body.
buildFooter(body) ==
    IF HasClass(body, "az-footer") THEN body
    ELSE Append(body, Node("az-footer", <<>>))

\* adjustPadding(): the spacer is inserted after the topbar, when the topbar
\* has a next sibling.
adjustPadding(body) ==
    LET topbar == ChildWith(body, "az-topbar")
    IN  IF HasClass(body, "az-topbar-spacer") THEN body
        ELSE IF topbar > 0 /\ topbar < Len(body)
        THEN SubSeq(body, 1, topbar) \o <<Node("az-topbar-spacer", <<>>)>>
             \o SubSeq(body, topbar + 1, Len(body))
        ELSE body

\* wrapContent(): the siblings after the spacer, up to the footer, are moved
\* into a wrapper that is inserted before the footer.
wrapContent(body) ==
    LET spacer == ChildWith(body, "az-topbar-spacer")
        footer == ChildWith(body, "az-footer")
        last == IF footer > spacer THEN footer - 1 ELSE Len(body)
        wrap == Node("az-shell-content-wrap", SubSeq(body, spacer + 1, last))
        rest == SubSeq(body, 1, spacer) \o SubSeq(body, last + 1, Len(body))
        at == ChildWith(rest, "az-footer")
    IN  IF spacer = 0 \/ footer = 0 THEN body
        ELSE IF HasClass(body, "az-shell-content-wrap") THEN body
        ELSE SubSeq(rest, 1, at - 1) \o <<wrap>> \o SubSeq(rest, at, Len(rest))

\* init(), without the request of loadCockpit.
init(body) ==
    wrapContent(adjustPadding(buildFooter(buildTopbar(removeExisting(body)))))

\* init() run n times in a row.
RECURSIVE initTimes(_, _)
initTimes(body, n) == IF n = 0 THEN body ELSE initTimes(init(body), n - 1)

\* The script, executed on the document: nothing when the page opts out;
\* else the style element is added unless there is one, and init runs now, or
\* at DOMContentLoaded when the document is still loading.
script(sh) ==
    IF sh.skip THEN sh
    ELSE LET styled == [sh EXCEPT !.styles = IF @ = 0 THEN 1 ELSE @]
         IN  IF sh.readyState = "loading"
             THEN [styled EXCEPT !.listeners = @ + 1]
             ELSE [styled EXCEPT !.body = init(@), !.inits = @ + 1,
                                 !.cockpit = @ + 1]

\* The reply of a loadCockpit request with a banner: the old banner is
\* removed and the new one is appended to the body.
cockpitBanner(body) ==
    Append(SelectSeq(body, LAMBDA n : n.class # "az-cockpit-banner"),
           Node("az-cockpit-banner", <<>>))

\* The bodies of the served pages: up to MaxNodes nodes.
PageBodies ==
    UNION {[1..n -> PageClasses] : n \in 0..MaxNodes}

ServedBody(classes) ==
    [i \in 1..Len(classes) |-> [id |-> i, class |-> classes[i], children |-> <<>>]]

InitShell ==
    /\ argText = ""
    /\ argData = NoData
    /\ hl = NoCall
    /\ view = NoView
    /\ en = NoCall
    /\ page = NoPage
    /\ log = <<>>
    /\ analytics = NoAnalytics
    /\ engine = NoEngine
    /\ \E classes \in PageBodies, skip \in BOOLEAN :
          shell = [status |-> "page", skip |-> skip, readyState |-> "loading",
                   styles |-> 0, body |-> ServedBody(classes),
                   original |-> ServedBody(classes), runs |-> 0, listeners |-> 0,
                   inits |-> 0, cockpit |-> 0]

nonShell == <<argText, argData, hl, view, en, page, log, analytics, engine>>

\* A script element of az-shell.js is executed.
ShellScript ==
    /\ shell.runs < MaxRuns
    /\ shell' = [script(shell) EXCEPT !.runs = @ + 1]
    /\ UNCHANGED nonShell

\* The document has been parsed: every DOMContentLoaded listener runs.
DomContentLoaded ==
    /\ shell.readyState = "loading"
    /\ shell' = [shell EXCEPT !.readyState = "interactive",
                              !.body = initTimes(@, shell.listeners),
                              !.inits = @ + shell.listeners,
                              !.cockpit = @ + shell.listeners,
                              !.listeners = 0]
    /\ UNCHANGED nonShell

\* A loadCockpit request is answered with a banner.
CockpitBanner ==
    /\ shell.cockpit > 0
    /\ shell' = [shell EXCEPT !.cockpit = @ - 1, !.body = cockpitBanner(@)]
    /\ UNCHANGED nonShell

\* A loadCockpit request is answered without a banner, or fails.
CockpitQuiet ==
    /\ shell.cockpit > 0
    /\ shell' = [shell EXCEPT !.cockpit = @ - 1]
    /\ UNCHANGED nonShell

NextShell == ShellScript \/ DomContentLoaded \/ CockpitBanner \/ CockpitQuiet

SpecShell == InitShell /\ [][NextShell]_vars

-----------------------------------------------------------------------------
(* Injection is idempotent.                                                *)
(***************************************************************************)

\* The elements of the document body in document order: each child of the
\* body followed by its children.
RECURSIVE Flatten(_)
Flatten(nodes) ==
    IF nodes = <<>> THEN <<>>
    ELSE <<Head(nodes)>> \o Head(nodes).children \o Flatten(Tail(nodes))

Elements == Flatten(shell.body)

CountClass(class) == Cardinality({i \in 1..Len(Elements) : Elements[i].class = class})

ShellClasses == {"az-topbar", "az-footer", "az-topbar-spacer", "az-shell-content-wrap"}

\* The nodes of the served page that removeExisting does not select: the
\* page's content, as opposed to the header and footer the shell replaces.
ContentIds ==
    {shell.original[i].id : i \in {j \in 1..Len(shell.original) :
                                      ~Removable(shell.original[j].class)}}

\* The node is in the document, after the spacer and before the footer.
BetweenSpacerAndFooter(id) ==
    \E s, n, f \in 1..Len(Elements) :
        /\ s < n /\ n < f
        /\ Elements[s].class = "az-topbar-spacer"
        /\ Elements[n].id = id
        /\ Elements[f].class = "az-footer"

\* C24: injection is idempotent.  The document has at most one style
\* element az-shell-styles and at most one element of each of the classes
\* az-topbar, az-footer, az-topbar-spacer and az-shell-content-wrap; and once
\* init has run, every content node of the served page is in the document
\* between the spacer and the footer.
C24_InjectedOnce ==
    shell.status = "page" =>
        /\ shell.styles <= 1
        /\ \A class \in ShellClasses : CountClass(class) <= 1
        /\ shell.inits > 0 => \A id \in ContentIds : BetweenSpacerAndFooter(id)

\* init has run twice on a page with an old topbar, content and an old
\* footer: one of each shell element, the content in the wrapper.
C24_Witness ==
    /\ shell.status = "page"
    /\ shell.inits = 2
    /\ Len(shell.original) = 3
    /\ shell.original[1].class = "topbar"
    /\ shell.original[2].class = "hero"
    /\ shell.original[3].class = "footer"
    /\ \A class \in ShellClasses : CountClass(class) = 1
    /\ BetweenSpacerAndFooter(2)

=============================================================================
